---- MODULE Spec2Model ----
(***************************************************************************)
(* Hybrid SQLite + Qdrant memory store (scripts/memory-db-hybrid.py).      *)
(*                                                                         *)
(* Each element of Procs is a process holding one HybridMemoryManager.     *)
(* All of them share the SQLite file (tables memory and learnings) and the *)
(* Qdrant collection.  A public method is a chain of steps, one per SQL    *)
(* commit or vector call, so that the steps of two processes interleave    *)
(* the way two command executions can.                                     *)
(***************************************************************************)
EXTENDS Integers, Sequences, FiniteSets, TLC

\* ------------------------------------------------------------ input sets
Procs == {"p1", "p2"}
Keys == {"k1", "k2"}
\* the keys a command line can carry: sys.argv[2] may be the empty string
SearchKeys == {"", "k1", "k2"}
\* the (value, category) pairs set is called with
Contents == {<<"v1", "general">>, <<"v2", "general">>, <<"v1", "geo">>}
LearningTypes == {"pattern"}
LearningContents == {"v1"}
\* the queries and limits the searches are called with
Queries == {"v1"}
Limits == {1, 2}
\* the texts points are embedded from
Texts == {"v1", "v2"}
\* round(hit.score, 4), in units of 0.0001
Scores == {2000, 4000, 8000}
\* score_threshold: float = 0.3
ScoreThreshold == 3000
\* r["score"] = 0.5
FallbackScore == 5000
\* hybrid_search(topic, limit=10), search(query, limit=10)
ContextLimit == 10
\* current_tokens = 50
HeaderTokens == 50
\* estimated_tokens = len(content) // 4
CharsPerToken == 4
\* current_tokens += estimated_tokens + 30 (context_for), + 20 (context_inject)
EntryTokens == 30
QdrantEntryTokens == 20
\* the max_tokens context_for and context_inject are called with
TokenBudgets == {50, 2000}
\* the categories list is called with; the empty one stands for None
ListCategories == {"", "general"}
\* the queries keyword_search is called with and the values it searches
KeywordQueries == {"v1", "V1", "_"}
KeywordTexts == {"v1", "V1", "v2"}
\* the values context_for packs, of 0 and of 2 estimated tokens, and the
\* max_tokens it packs them into
PackTexts == {"v1", "v1v1v1v1"}
PackBudgets == {51, 2000}

\* Number of public operations started in one behaviour.
MaxOps == 3
\* Number of rows ever inserted into table learnings.
MaxLearnings == 1

None == "None"

VARIABLES
    \* the SQLite file
    memory,               \* committed rows of table memory, in rowid order
    learnings,            \* committed rows of table learnings, in rowid order
    learning_seq,         \* AUTOINCREMENT counter of table learnings
    write_lock,           \* the process holding SQLite's write lock, or None
    \* the vector backend
    qdrant,               \* the points of collection hivemind_memory
    collection_exists,    \* the collection has been created
    \* the installation
    QDRANT_AVAILABLE,     \* qdrant_client could be imported
    EMBEDDINGS_AVAILABLE, \* sentence_transformers could be imported
    similarity,           \* per query and text: the cosine similarity of their
                          \* embeddings, as Qdrant scores it
    one_shot,             \* TRUE: every call is one run of main(), which ends
                          \* the process; FALSE: a caller keeps its manager
    serial,               \* TRUE: no call starts while another is in progress
    \* per process
    manager,              \* the fields of its HybridMemoryManager
    qdrant_manager,       \* the fields of its QdrantMemoryManager (qdrant-memory.py)
    txn,                  \* statements its connection executed and has not committed
    frame,                \* the call in progress: position, arguments, locals
    \* history
    last_write,           \* per key: the last committed set, or the last delete
                          \* that removed a row, whichever came later
    interrupted,          \* keys whose last committed set lost its process
                          \* before it had marked the row
    quiet,                \* a sync run ended healthy and no write committed since
    ops                   \* operations started

store_vars == <<memory, learnings, learning_seq, write_lock>>
vector_vars == <<qdrant, collection_exists>>
env_vars == <<QDRANT_AVAILABLE, EMBEDDINGS_AVAILABLE, similarity, one_shot, serial>>
proc_vars == <<manager, qdrant_manager, txn, frame>>
history_vars == <<last_write, interrupted, quiet, ops>>
vars == <<store_vars, vector_vars, env_vars, proc_vars, history_vars>>

\* ------------------------------------------------------------ values
NoCall == [op |-> "none"]
NoResult == [op |-> "none"]
NoRow == [key |-> None]
NoWrite == [op |-> "none"]
NoTxn == [open |-> FALSE, memory |-> {}, learnings |-> {}]

\* __init__, lines 66-71
NewManager ==
    [qdrant_initialized |-> FALSE, qdrant_client |-> FALSE, embedding_model |-> FALSE,
     \* history: _ensure_qdrant has returned False from its initialisation
     init_failed |-> FALSE]

\* qdrant-memory.py, __init__, lines 70-75
NewQdrantManager ==
    [initialized |-> FALSE, client |-> FALSE, model |-> FALSE,
     \* history: _ensure_initialized has returned False from its except branch;
     \* the connections it has opened
     init_failed |-> FALSE, connects |-> 0]

\* no call in progress
Idle ==
    [pc |-> "idle", call |-> NoCall, before |-> NoRow, qdrant_synced |-> FALSE,
     deleted_sqlite |-> FALSE, memories |-> <<>>, learnings |-> <<>>, idx |-> 1,
     synced |-> 0, errors |-> <<>>, result |-> NoResult, log |-> <<>>,
     started_quiet |-> FALSE, semantic_results |-> NoResult, counted |-> NoResult]

pc(p) == frame[p].pc
call(p) == frame[p].call
result(p) == frame[p].result
log(p) == frame[p].log

LearningKeyNames == <<"learning_1", "learning_2", "learning_3">>
\* f"learning_{learning_id}"
LearningKey(id) == LearningKeyNames[id]
\* f"learning_{learning_type}"
LearningCategory(t) == "learning_" \o t

\* an id that differs from call to call
GenerateIdPerCall(key) == <<"md5", key, ops>>

\* hashlib.md5(key.encode()).hexdigest(): injective on the keys of the model
GenerateId(key) == <<"md5", key>>
\* qdrant-memory.py: hashlib.md5(key.encode()).hexdigest()
QdrantGenerateId(key) == <<"md5", key>>
\* hashlib.sha256(content.encode()).hexdigest()[:16]
ContentHash(content) == <<"sha256", content>>

\* ------------------------------------------------------------ the tables
KeyRows(mem, key) == {i \in DOMAIN mem : mem[i].key = key}

HasKey(mem, key) == KeyRows(mem, key) # {}

\* SELECT ... FROM memory WHERE key = ?, fetchone()
RowOf(mem, key) ==
    IF HasKey(mem, key) THEN mem[CHOOSE i \in KeyRows(mem, key) : TRUE] ELSE NoRow

\* CURRENT_TIMESTAMP, in seconds: every operation starts in a second of its own
Now == ops + 1

\* an INSERT without its ON CONFLICT clause, on a table without UNIQUE(key)
UpsertAppends(mem, key, value, category) ==
    Append(mem, [key |-> key, value |-> value, category |-> category,
                 updated_at |-> Now, vector_synced |-> 0])

\* an ON CONFLICT clause that forgets vector_synced = 0
UpsertKeepsSyncState(mem, key, value, category) ==
    IF HasKey(mem, key)
    THEN [i \in DOMAIN mem |->
            IF mem[i].key = key
            THEN [mem[i] EXCEPT !.value = value, !.category = category,
                                !.updated_at = Now]
            ELSE mem[i]]
    ELSE Append(mem, [key |-> key, value |-> value, category |-> category,
                      updated_at |-> Now, vector_synced |-> 0])

\* INSERT ... ON CONFLICT(key) DO UPDATE SET value, category, updated_at,
\* vector_synced = 0
Upsert(mem, key, value, category) ==
    IF HasKey(mem, key)
    THEN [i \in DOMAIN mem |->
            IF mem[i].key = key
            THEN [mem[i] EXCEPT !.value = value, !.category = category,
                                !.updated_at = Now, !.vector_synced = 0]
            ELSE mem[i]]
    ELSE Append(mem, [key |-> key, value |-> value, category |-> category,
                      updated_at |-> Now, vector_synced |-> 0])

\* an UPDATE without its WHERE clause
MarkSyncedEveryRow(mem, keys) ==
    [i \in DOMAIN mem |-> [mem[i] EXCEPT !.vector_synced = 1]]

\* an UPDATE that sets the flag of every row: 1 for the keys, 0 for the rest
MarkSyncedUnmarksRest(mem, keys) ==
    [i \in DOMAIN mem |->
        [mem[i] EXCEPT !.vector_synced = IF mem[i].key \in keys THEN 1 ELSE 0]]

\* UPDATE memory SET vector_synced = 1 WHERE key = ?
MarkSynced(mem, keys) ==
    [i \in DOMAIN mem |->
        IF mem[i].key \in keys THEN [mem[i] EXCEPT !.vector_synced = 1] ELSE mem[i]]

\* UPDATE learnings SET vector_synced = 1 WHERE id = ?
MarkLearningsSynced(ls, ids) ==
    [i \in DOMAIN ls |->
        IF ls[i].id \in ids THEN [ls[i] EXCEPT !.vector_synced = 1] ELSE ls[i]]

\* a DELETE that is never committed
DeleteKeepsRows(mem, key) == mem

\* rows left by DELETE FROM memory WHERE key = ?
DeleteKey(mem, key) ==
    LET Keep(r) == r.key # key IN SelectSeq(mem, Keep)

\* the SELECT with its flag the wrong way round: WHERE vector_synced = 1
SelectSynced(mem) ==
    LET Keep(r) == r.vector_synced = 1
        rows == SelectSeq(mem, Keep)
    IN  [i \in DOMAIN rows |->
            [key |-> rows[i].key, value |-> rows[i].value, category |-> rows[i].category]]

\* SELECT key, value, category FROM memory WHERE vector_synced = 0
SelectUnsynced(mem) ==
    LET Keep(r) == r.vector_synced = 0
        rows == SelectSeq(mem, Keep)
    IN  [i \in DOMAIN rows |->
            [key |-> rows[i].key, value |-> rows[i].value, category |-> rows[i].category]]

\* SELECT id, learning_type, content FROM learnings WHERE vector_synced = 0
SelectUnsyncedLearnings(ls) ==
    LET Keep(r) == r.vector_synced = 0
        rows == SelectSeq(ls, Keep)
    IN  [i \in DOMAIN rows |->
            [id |-> rows[i].id, learning_type |-> rows[i].learning_type,
             content |-> rows[i].content]]

\* SQLite lets one connection write at a time; a second writer gets
\* "database is locked" once its busy timeout has run out.
CanWrite(p) == write_lock \in {None, p}

\* ------------------------------------------------------------ the vector side
\* _ensure_qdrant: the ways one call can end, each with the value returned
\* (ok), the manager it leaves and whether the collection exists afterwards.
\* A failed first call leaves self.qdrant_client set when the exception came
\* after the client was constructed.
EnsureQdrant(p) ==
    LET Outcome(ok, client, model, coll) ==
            [ok |-> ok,
             manager |-> [qdrant_initialized |-> TRUE, qdrant_client |-> client,
                          embedding_model |-> model, init_failed |-> ~ok],
             collection |-> coll]
    IN  IF manager[p].qdrant_initialized
        THEN {[ok |-> manager[p].qdrant_client, manager |-> manager[p],
               collection |-> collection_exists]}
        ELSE IF ~QDRANT_AVAILABLE
        THEN {Outcome(FALSE, FALSE, FALSE, collection_exists)}
        ELSE {\* no exception: the collection exists from here on
              Outcome(TRUE, TRUE, EMBEDDINGS_AVAILABLE, TRUE),
              \* QdrantClient(...) raised
              Outcome(FALSE, FALSE, FALSE, collection_exists),
              \* get_collections() or SentenceTransformer(...) raised
              Outcome(FALSE, TRUE, FALSE, collection_exists),
              \* _ensure_qdrant_collection() raised
              Outcome(FALSE, TRUE, EMBEDDINGS_AVAILABLE, collection_exists)}

Point(key, content, category) ==
    [id |-> GenerateId(key), key |-> key, content |-> content,
     category |-> category, content_hash |-> ContentHash(content)]

\* an upsert that adds a point and replaces none
UpsertPointAdds(points, pt) == points \cup {pt}

\* qdrant_client.upsert: create or replace the point of that id
UpsertPoint(points, pt) == {q \in points : q.id # pt.id} \cup {pt}

\* qdrant_client.delete(points_selector=[id])
DeletePoint(points, id) == {q \in points : q.id # id}

\* How one _store_in_qdrant call can end, given how _ensure_qdrant ended:
\* "unavailable" (False before the try), "error" (False from the except: the
\* backend did not serve the upsert), "ok" (True)
StoreOutcomes(o) ==
    IF ~o.ok \/ ~o.manager.embedding_model THEN {"unavailable"}
    ELSE IF o.collection THEN {"ok", "error"}
    ELSE {"error"}

\* an upsert whose payload carries the default category
StoreInQdrantDefaultCategory(key, content, category, outcome) ==
    IF outcome = "ok" THEN UpsertPoint(qdrant, Point(key, content, "general"))
    ELSE qdrant

\* the points after _store_in_qdrant(key, content, category) ended as outcome
StoreInQdrant(key, content, category, outcome) ==
    IF outcome = "ok" THEN UpsertPoint(qdrant, Point(key, content, category))
    ELSE qdrant

\* how the vector half of delete can end, given how _ensure_qdrant ended:
\* "unavailable" (not tried), "error" (qdrant_client.delete raised), "ok"
DeleteOutcomes(o) ==
    IF ~o.ok THEN {"unavailable"}
    ELSE IF o.collection THEN {"ok", "error"}
    ELSE {"error"}

\* ------------------------------------------------------------ calls
\* entry of a public method
Begin(p) ==
    /\ pc(p) = "idle"
    /\ serial => \A q \in Procs : pc(q) = "idle"
    /\ ops < MaxOps
    /\ ops' = ops + 1

\* the frame a call with arguments c starts in
Entered(c) == [Idle EXCEPT !.call = c, !.started_quiet = quiet]

\* the call goes on in frame f and leaves the manager as m
Continue(p, f, m) ==
    /\ frame' = [frame EXCEPT ![p] = f]
    /\ manager' = [manager EXCEPT ![p] = m]
    /\ UNCHANGED qdrant_manager

\* a return that drops the cached client after a vector call has failed
FinishDowngrades(p, f, m, r) ==
    Continue(p, [f EXCEPT !.pc = "done", !.result = r],
             IF \E i \in DOMAIN f.log : f.log[i] = "vec_error" THEN NewManager ELSE m)

\* The method returns r (or an exception leaves it: r.raised) from frame f,
\* leaving the manager as m.  Under main() the result is printed and the
\* process ends (lines 894-898): the next command starts with a new manager.
Finish(p, f, m, r) ==
    IF one_shot
    THEN Continue(p, Idle, NewManager)
    ELSE Continue(p, [f EXCEPT !.pc = "done", !.result = r], m)

Raised(op) == [op |-> op, raised |-> TRUE]

Logged(f, e) == [f EXCEPT !.log = Append(@, e)]

\* ------------------------------------------------------------ set
SetResult(key, category, vector) ==
    [op |-> "set", raised |-> FALSE, status |-> "set", key |-> key,
     category |-> category, sqlite |-> TRUE, qdrant |-> vector]

\* a set that catches the exception of its relational write and goes on
SetRelationalSwallowsError(p, key, value, category) ==
    LET f == Entered([op |-> "set", key |-> key, value |-> value,
                      category |-> category])
    IN  /\ Begin(p)
        /\ IF CanWrite(p)
           THEN /\ memory' = Upsert(memory, key, value, category)
                /\ last_write' = [last_write EXCEPT ![key] =
                                     [op |-> "set", value |-> value,
                                      category |-> category]]
                /\ interrupted' = interrupted \ {key}
                /\ quiet' = FALSE
                /\ Continue(p, Logged([f EXCEPT !.pc = "set_vector",
                                                !.before = RowOf(memory, key)],
                                      "sql_commit"),
                            manager[p])
           ELSE /\ Continue(p, Logged([f EXCEPT !.pc = "set_vector"], "sql_error"),
                            manager[p])
                /\ UNCHANGED <<memory, last_write, interrupted, quiet>>
        /\ UNCHANGED <<learnings, learning_seq, write_lock, vector_vars, env_vars, txn>>

\* set, lines 281-294: INSERT ... ON CONFLICT; conn.commit()
SetRelational(p, key, value, category) ==
    LET f == Entered([op |-> "set", key |-> key, value |-> value,
                      category |-> category])
    IN  /\ Begin(p)
        /\ IF CanWrite(p)
           THEN /\ memory' = Upsert(memory, key, value, category)
                /\ last_write' = [last_write EXCEPT ![key] =
                                     [op |-> "set", value |-> value,
                                      category |-> category]]
                /\ interrupted' = interrupted \ {key}
                /\ quiet' = FALSE
                /\ Continue(p, Logged([f EXCEPT !.pc = "set_vector",
                                                !.before = RowOf(memory, key)],
                                      "sql_commit"),
                            manager[p])
           ELSE /\ Finish(p, Logged(f, "sql_error"), manager[p], Raised("set"))
                /\ UNCHANGED <<memory, last_write, interrupted, quiet>>
        /\ UNCHANGED <<learnings, learning_seq, write_lock, vector_vars, env_vars, txn>>

\* a set that goes on to its UPDATE whatever _store_in_qdrant returned
SetVectorMarksAnyway(p) ==
    /\ pc(p) = "set_vector"
    /\ \E o \in EnsureQdrant(p) : \E outcome \in StoreOutcomes(o) :
        LET f == Logged([frame[p] EXCEPT !.qdrant_synced = (outcome = "ok")],
                        "vec_" \o outcome)
        IN  /\ qdrant' = StoreInQdrant(call(p).key, call(p).value, call(p).category,
                                       outcome)
            /\ collection_exists' = o.collection
            /\ Continue(p, [f EXCEPT !.pc = "set_mark"], o.manager)
    /\ UNCHANGED <<store_vars, env_vars, txn, history_vars>>

\* set, line 297: qdrant_synced = self._store_in_qdrant(key, value, category);
\* with qdrant_synced false the method returns at once (lines 303-309)
SetVector(p) ==
    /\ pc(p) = "set_vector"
    /\ \E o \in EnsureQdrant(p) : \E outcome \in StoreOutcomes(o) :
        LET f == Logged([frame[p] EXCEPT !.qdrant_synced = (outcome = "ok")],
                        "vec_" \o outcome)
        IN  /\ qdrant' = StoreInQdrant(call(p).key, call(p).value, call(p).category,
                                       outcome)
            /\ collection_exists' = o.collection
            /\ IF outcome = "ok"
               THEN Continue(p, [f EXCEPT !.pc = "set_mark"], o.manager)
               ELSE Finish(p, f, o.manager,
                           SetResult(call(p).key, call(p).category, FALSE))
    /\ UNCHANGED <<store_vars, env_vars, txn, history_vars>>

\* set, lines 299-309: UPDATE memory SET vector_synced = 1; conn.commit(); return
SetMark(p) ==
    /\ pc(p) = "set_mark"
    /\ IF CanWrite(p)
       THEN /\ memory' = MarkSynced(memory, {call(p).key})
            /\ Finish(p, Logged(frame[p], "sql_mark"), manager[p],
                      SetResult(call(p).key, call(p).category, frame[p].qdrant_synced))
       ELSE /\ memory' = memory
            /\ Finish(p, Logged(frame[p], "sql_error"), manager[p], Raised("set"))
    /\ UNCHANGED <<learnings, learning_seq, write_lock, vector_vars, env_vars, txn,
                   history_vars>>

\* ------------------------------------------------------------ get
GetResult(mem, key) ==
    IF HasKey(mem, key)
    THEN LET r == RowOf(mem, key)
         IN  [op |-> "get", raised |-> FALSE, key |-> key, value |-> r.value,
              category |-> r.category, vector_synced |-> (r.vector_synced # 0)]
    ELSE [op |-> "get", raised |-> FALSE, key |-> key, value |-> None]

\* get, lines 311-329
Get(p, key) ==
    /\ Begin(p)
    /\ Finish(p, Entered([op |-> "get", key |-> key]), manager[p],
              GetResult(memory, key))
    /\ UNCHANGED <<store_vars, vector_vars, env_vars, txn, last_write, interrupted,
                   quiet>>

\* ------------------------------------------------------------ delete
\* delete, lines 333-338: DELETE FROM memory WHERE key = ?; conn.commit()
DeleteRelational(p, key) ==
    LET f == Entered([op |-> "delete", key |-> key])
    IN  /\ Begin(p)
        /\ IF CanWrite(p)
           THEN /\ memory' = DeleteKey(memory, key)
                /\ last_write' = [last_write EXCEPT ![key] =
                                     IF HasKey(memory, key) THEN [op |-> "delete"]
                                     ELSE @]
                /\ interrupted' = interrupted \ {key}
                /\ quiet' = FALSE
                /\ Continue(p, Logged([f EXCEPT !.pc = "delete_vector",
                                                !.deleted_sqlite = HasKey(memory, key)],
                                      "sql_commit"),
                            manager[p])
           ELSE /\ Finish(p, Logged(f, "sql_error"), manager[p], Raised("delete"))
                /\ UNCHANGED <<memory, last_write, interrupted, quiet>>
        /\ UNCHANGED <<learnings, learning_seq, write_lock, vector_vars, env_vars, txn>>

\* a status that reports "deleted" only when both stores deleted
DeleteResultNeedsBoth(key, sqlite, vector) ==
    [op |-> "delete", raised |-> FALSE,
     status |-> IF sqlite /\ vector THEN "deleted" ELSE "not_found",
     key |-> key, sqlite |-> sqlite, qdrant |-> vector]

DeleteResult(key, sqlite, vector) ==
    [op |-> "delete", raised |-> FALSE,
     status |-> IF sqlite THEN "deleted" ELSE "not_found",
     key |-> key, sqlite |-> sqlite, qdrant |-> vector]

\* a delete that leaves the collection alone when no row was deleted
DeleteVectorIfDeleted(p) ==
    /\ pc(p) = "delete_vector"
    /\ \E o \in EnsureQdrant(p) :
        \E outcome \in IF frame[p].deleted_sqlite THEN DeleteOutcomes(o)
                        ELSE {"unavailable"} :
        /\ qdrant' = IF outcome = "ok"
                     THEN DeletePoint(qdrant, GenerateId(call(p).key))
                     ELSE qdrant
        /\ collection_exists' = o.collection
        /\ Finish(p, Logged(frame[p], "vec_" \o outcome), o.manager,
                  DeleteResult(call(p).key, frame[p].deleted_sqlite, outcome = "ok"))
    /\ UNCHANGED <<store_vars, env_vars, txn, history_vars>>

\* delete, lines 340-356
DeleteVector(p) ==
    /\ pc(p) = "delete_vector"
    /\ \E o \in EnsureQdrant(p) : \E outcome \in DeleteOutcomes(o) :
        /\ qdrant' = IF outcome = "ok"
                     THEN DeletePoint(qdrant, GenerateId(call(p).key))
                     ELSE qdrant
        /\ collection_exists' = o.collection
        /\ Finish(p, Logged(frame[p], "vec_" \o outcome), o.manager,
                  DeleteResult(call(p).key, frame[p].deleted_sqlite, outcome = "ok"))
    /\ UNCHANGED <<store_vars, env_vars, txn, history_vars>>

\* ------------------------------------------------------------ sync_vectors
\* loops that end at the first record whose upsert failed
SyncPcAborts(f) ==
    IF f.errors # <<>>
    THEN "sync_commit"
    ELSE IF f.pc \in {"sync_memory", "sync_mark_memory"} /\ f.idx <= Len(f.memories)
    THEN "sync_memory"
    ELSE IF f.pc \in {"sync_memory", "sync_mark_memory"} /\ Len(f.learnings) > 0
    THEN "sync_learning"
    ELSE IF f.pc \in {"sync_learning", "sync_mark_learning"}
            /\ f.idx <= Len(f.learnings)
    THEN "sync_learning"
    ELSE "sync_commit"

\* where the loops of sync_vectors stand in frame f
SyncPc(f) ==
    IF f.pc \in {"sync_memory", "sync_mark_memory"} /\ f.idx <= Len(f.memories)
    THEN "sync_memory"
    ELSE IF f.pc \in {"sync_memory", "sync_mark_memory"} /\ Len(f.learnings) > 0
    THEN "sync_learning"
    ELSE IF f.pc \in {"sync_learning", "sync_mark_learning"}
            /\ f.idx <= Len(f.learnings)
    THEN "sync_learning"
    ELSE "sync_commit"

\* frame f at the next entry of its loop, or past the loops
SyncNext(f) ==
    [f EXCEPT !.pc = SyncPc(f),
              !.idx = IF SyncPc(f) = "sync_learning"
                         /\ f.pc \in {"sync_memory", "sync_mark_memory"}
                      THEN 1 ELSE f.idx]

\* sync_vectors, lines 542-560: _ensure_qdrant, the two SELECTs
SyncStart(p) ==
    LET f == Entered([op |-> "sync_vectors"])
    IN  /\ Begin(p)
        /\ \E o \in EnsureQdrant(p) :
            /\ collection_exists' = o.collection
            /\ IF ~o.ok
               THEN Finish(p, f, o.manager,
                           [op |-> "sync_vectors", raised |-> FALSE,
                            error |-> "Qdrant not available"])
               ELSE Continue(p, SyncNext([f EXCEPT
                                   !.pc = "sync_memory",
                                   !.memories = SelectUnsynced(memory),
                                   !.learnings = SelectUnsyncedLearnings(learnings)]),
                             o.manager)
        /\ UNCHANGED <<store_vars, qdrant, env_vars, txn, last_write, interrupted,
                       quiet>>

\* sync_vectors, lines 562-563 and 566-567: _store_in_qdrant of one row
SyncStoreMemory(p) ==
    /\ pc(p) = "sync_memory"
    /\ \E o \in EnsureQdrant(p) : \E outcome \in StoreOutcomes(o) :
        LET m == frame[p].memories[frame[p].idx]
            f == Logged(frame[p], "vec_" \o outcome)
        IN  /\ qdrant' = StoreInQdrant(m.key, m.value, m.category, outcome)
            /\ collection_exists' = o.collection
            /\ IF outcome = "ok"
               THEN Continue(p, [f EXCEPT !.pc = "sync_mark_memory"], o.manager)
               ELSE Continue(p, SyncNext([f EXCEPT
                                   !.errors = Append(@, [key |-> m.key,
                                                         type |-> "memory"]),
                                   !.idx = @ + 1]),
                             o.manager)
    /\ UNCHANGED <<store_vars, env_vars, txn, history_vars>>

\* sync_vectors, lines 564-565: the UPDATE opens a transaction that stays open
\* until line 577
SyncMarkMemory(p) ==
    /\ pc(p) = "sync_mark_memory"
    /\ IF CanWrite(p)
       THEN /\ txn' = [txn EXCEPT ![p] = [@ EXCEPT !.open = TRUE,
                          !.memory = @ \cup {frame[p].memories[frame[p].idx].key}]]
            /\ write_lock' = p
            /\ Continue(p, SyncNext(Logged([frame[p] EXCEPT !.synced = @ + 1,
                                                            !.idx = @ + 1],
                                           "sql_update")),
                        manager[p])
       ELSE /\ Finish(p, Logged(frame[p], "sql_error"), manager[p],
                      Raised("sync_vectors"))
            /\ UNCHANGED <<txn, write_lock>>
    /\ UNCHANGED <<memory, learnings, learning_seq, vector_vars, env_vars,
                   history_vars>>

\* sync_vectors, lines 569-571 and 574-575
SyncStoreLearning(p) ==
    /\ pc(p) = "sync_learning"
    /\ \E o \in EnsureQdrant(p) : \E outcome \in StoreOutcomes(o) :
        LET l == frame[p].learnings[frame[p].idx]
            f == Logged(frame[p], "vec_" \o outcome)
        IN  /\ qdrant' = StoreInQdrant(LearningKey(l.id), l.content,
                                       LearningCategory(l.learning_type), outcome)
            /\ collection_exists' = o.collection
            /\ IF outcome = "ok"
               THEN Continue(p, [f EXCEPT !.pc = "sync_mark_learning"], o.manager)
               ELSE Continue(p, SyncNext([f EXCEPT
                                   !.errors = Append(@, [key |-> LearningKey(l.id),
                                                         type |-> "learning"]),
                                   !.idx = @ + 1]),
                             o.manager)
    /\ UNCHANGED <<store_vars, env_vars, txn, history_vars>>

\* sync_vectors, lines 572-573
SyncMarkLearning(p) ==
    /\ pc(p) = "sync_mark_learning"
    /\ IF CanWrite(p)
       THEN /\ txn' = [txn EXCEPT ![p] = [@ EXCEPT !.open = TRUE,
                          !.learnings = @ \cup {frame[p].learnings[frame[p].idx].id}]]
            /\ write_lock' = p
            /\ Continue(p, SyncNext(Logged([frame[p] EXCEPT !.synced = @ + 1,
                                                            !.idx = @ + 1],
                                           "sql_update")),
                        manager[p])
       ELSE /\ Finish(p, Logged(frame[p], "sql_error"), manager[p],
                      Raised("sync_vectors"))
            /\ UNCHANGED <<txn, write_lock>>
    /\ UNCHANGED <<memory, learnings, learning_seq, vector_vars, env_vars,
                   history_vars>>

\* the backend was healthy for the call of frame f: every vector call it made
\* was served
HealthyRun(f) ==
    \A i \in DOMAIN f.log : f.log[i] \notin {"vec_error", "vec_unavailable"}

SyncResult(f) ==
    [op |-> "sync_vectors", raised |-> FALSE, status |-> "synced",
     synced_count |-> f.synced,
     errors |-> IF f.errors # <<>> THEN f.errors ELSE None,
     pending_memories |-> Len(f.memories),
     pending_learnings |-> Len(f.learnings)]

\* sync_vectors, lines 577-585: conn.commit(); return
SyncCommit(p) ==
    /\ pc(p) = "sync_commit"
    /\ memory' = MarkSynced(memory, txn[p].memory)
    /\ learnings' = MarkLearningsSynced(learnings, txn[p].learnings)
    /\ write_lock' = IF txn[p].open THEN None ELSE write_lock
    /\ txn' = [txn EXCEPT ![p] = NoTxn]
    /\ quiet' = (quiet \/ HealthyRun(frame[p]))
    /\ Finish(p, Logged(frame[p], "sql_commit"), manager[p], SyncResult(frame[p]))
    /\ UNCHANGED <<learning_seq, vector_vars, env_vars, last_write, interrupted, ops>>

\* ------------------------------------------------------------ status
\* a status that reports every record as unsynced
StatusResultCountsAll(counted, connected) ==
    [op |-> "status", raised |-> FALSE,
     sqlite |-> [connected |-> TRUE, memories |-> counted.memories,
                 learnings |-> counted.learnings,
                 unsynced_to_qdrant |-> counted.memories],
     qdrant |-> [connected |-> connected],
     capabilities |-> [qdrant_available |-> QDRANT_AVAILABLE,
                       embeddings_available |-> EMBEDDINGS_AVAILABLE]]

\* status, lines 593-600, 615-621 and 629-644: the dictionary returned
StatusResult(counted, connected) ==
    [op |-> "status", raised |-> FALSE,
     sqlite |-> [connected |-> TRUE, memories |-> counted.memories,
                 learnings |-> counted.learnings,
                 unsynced_to_qdrant |-> counted.unsynced_to_qdrant],
     qdrant |-> [connected |-> connected],
     capabilities |-> [qdrant_available |-> QDRANT_AVAILABLE,
                       embeddings_available |-> EMBEDDINGS_AVAILABLE]]

\* status, lines 604-607: SELECT COUNT(*) FROM memory
StatusCount(p) ==
    /\ Begin(p)
    /\ Continue(p, [Entered([op |-> "status"]) EXCEPT
                      !.pc = "status_unsynced",
                      !.counted = [memories |-> Len(memory)]],
                manager[p])
    /\ UNCHANGED <<store_vars, vector_vars, env_vars, txn, last_write, interrupted,
                   quiet>>

\* status, lines 609-613: the counts of unsynced records and of learnings
StatusUnsynced(p) ==
    /\ pc(p) = "status_unsynced"
    /\ Continue(p, [frame[p] EXCEPT
                      !.pc = "status_qdrant",
                      !.counted = [memories |-> @.memories,
                                   unsynced_to_qdrant |-> Len(SelectUnsynced(memory)),
                                   learnings |-> Len(learnings)]],
                manager[p])
    /\ UNCHANGED <<store_vars, vector_vars, env_vars, txn, history_vars>>

\* how the vector half of status can end, given how _ensure_qdrant ended:
\* "unavailable" (the else of line 638), "error" (get_collection raised), "ok"
StatusOutcomes(o) ==
    IF ~o.ok THEN {"unavailable"}
    ELSE IF o.collection THEN {"ok", "error"}
    ELSE {"error"}

\* status, lines 626-644: _ensure_qdrant, get_collection; return
StatusQdrant(p) ==
    /\ pc(p) = "status_qdrant"
    /\ \E o \in EnsureQdrant(p) : \E outcome \in StatusOutcomes(o) :
        /\ collection_exists' = o.collection
        /\ Finish(p, Logged(frame[p], "info_" \o outcome), o.manager,
                  StatusResult(frame[p].counted, outcome = "ok"))
    /\ UNCHANGED <<store_vars, qdrant, env_vars, txn, history_vars>>

\* ------------------------------------------------------------ searches
Min(a, b) == IF a <= b THEN a ELSE b

\* the first n elements of sequence s
Take(s, n) == SubSeq(s, 1, Min(n, Len(s)))

\* the characters of the keys, values, categories and queries of the model
Spell(text) ==
    CASE text = "" -> <<>>
      [] text = "k1" -> <<"k", "1">>
      [] text = "k2" -> <<"k", "2">>
      [] text = "v1" -> <<"v", "1">>
      [] text = "v2" -> <<"v", "2">>
      [] text = "V1" -> <<"V", "1">>
      [] text = "v1v1v1v1" -> <<"v", "1", "v", "1", "v", "1", "v", "1">>
      [] text = "_" -> <<"_">>
      [] text = "general" -> <<"g", "e", "n", "e", "r", "a", "l">>
      [] text = "geo" -> <<"g", "e", "o">>

\* SQLite's LIKE compares the ASCII letters without regard to case
Fold(c) ==
    CASE c = "V" -> "v"
      [] c = "K" -> "k"
      [] c = "G" -> "g"
      [] OTHER -> c

\* SQLite's LIKE on characters: % matches any run of characters, _ matches
\* any one character, every other character matches itself
RECURSIVE LikeChars(_, _)
LikeChars(pattern, chars) ==
    IF pattern = <<>> THEN chars = <<>>
    ELSE IF Head(pattern) = "%"
    THEN \/ LikeChars(Tail(pattern), chars)
         \/ chars # <<>> /\ LikeChars(pattern, Tail(chars))
    ELSE IF chars = <<>> THEN FALSE
    ELSE IF Head(pattern) = "_" THEN LikeChars(Tail(pattern), Tail(chars))
    ELSE /\ Fold(Head(pattern)) = Fold(Head(chars))
         /\ LikeChars(Tail(pattern), Tail(chars))

\* text LIKE ?, with search_pattern = f'%{query}%'
Like(query, text) == LikeChars(<<"%">> \o Spell(query) \o <<"%">>, Spell(text))

\* ORDER BY updated_at DESC: rows of one second stay in rowid order
OrderByUpdatedAtDesc(rows) ==
    LET Ahead(i) == {j \in DOMAIN rows :
                        \/ rows[j].updated_at > rows[i].updated_at
                        \/ rows[j].updated_at = rows[i].updated_at /\ j < i}
    IN  [n \in DOMAIN rows |->
            rows[CHOOSE i \in DOMAIN rows : Cardinality(Ahead(i)) = n - 1]]

\* keyword_search, lines 440-448: the rows fetched
KeywordRows(mem, query, limit) ==
    LET Matches(r) == Like(query, r.key) \/ Like(query, r.value)
                         \/ Like(query, r.category)
    IN  Take(OrderByUpdatedAtDesc(SelectSeq(mem, Matches)), limit)

\* keyword_search, lines 449-461
KeywordResult(query, rows) ==
    [op |-> "keyword_search", raised |-> FALSE, query |-> query,
     results |-> [i \in DOMAIN rows |->
                    [key |-> rows[i].key, content |-> rows[i].value,
                     category |-> rows[i].category, source |-> "sqlite"]],
     count |-> Len(rows)]

\* qdrant_client.search(limit, score_threshold): the ways the backend can
\* answer: the points scoring at least the threshold, best first, points of
\* one score in any order, cut at limit
SearchHits(points, query, limit) ==
    LET hits == {pt \in points : similarity[query][pt.content] >= ScoreThreshold}
        n == Cardinality(hits)
        rankings == {r \in [1..n -> hits] :
                        /\ \A i \in 1..n, j \in 1..n : i # j => r[i] # r[j]
                        /\ \A i \in 1..n, j \in 1..n :
                              i < j => similarity[query][r[i].content]
                                         >= similarity[query][r[j].content]}
    IN  {Take(r, limit) : r \in rankings}

\* how one semantic_search can end, given how _ensure_qdrant ended:
\* "unavailable" (lines 392-397), "error" (the except of line 431), "ok"
SearchOutcomes(o) ==
    IF ~o.ok \/ ~o.manager.embedding_model THEN {"unavailable"}
    ELSE IF o.collection THEN {"ok", "error"}
    ELSE {"error"}

\* a semantic_search that answers a failure like an empty success
SemanticResultWithoutFlag(query, outcome, hits) ==
    [op |-> "semantic_search", raised |-> FALSE, query |-> query,
     results |-> [i \in DOMAIN hits |->
                    [key |-> hits[i].key, content |-> hits[i].content,
                     category |-> hits[i].category,
                     score |-> similarity[query][hits[i].content],
                     source |-> "qdrant"]],
     count |-> Len(hits)]

\* semantic_search, lines 392-432: what it returns
SemanticResult(query, outcome, hits) ==
    IF outcome = "ok"
    THEN [op |-> "semantic_search", raised |-> FALSE, query |-> query,
          results |-> [i \in DOMAIN hits |->
                         [key |-> hits[i].key, content |-> hits[i].content,
                          category |-> hits[i].category,
                          score |-> similarity[query][hits[i].content],
                          source |-> "qdrant"]],
          count |-> Len(hits)]
    ELSE [op |-> "semantic_search", raised |-> FALSE,
          error |-> IF outcome = "unavailable" THEN "Qdrant not available"
                    ELSE "str(e)",
          results |-> <<>>]

\* semantic_search
SemanticSearch(p, query, limit) ==
    LET f == Entered([op |-> "semantic_search", query |-> query, limit |-> limit])
    IN  /\ Begin(p)
        /\ \E o \in EnsureQdrant(p) : \E outcome \in SearchOutcomes(o) :
            \E hits \in IF outcome = "ok" THEN SearchHits(qdrant, query, limit)
                         ELSE {<<>>} :
                /\ collection_exists' = o.collection
                /\ Finish(p, Logged(f, "vec_" \o outcome), o.manager,
                          SemanticResult(query, outcome, hits))
        /\ UNCHANGED <<store_vars, qdrant, env_vars, txn, last_write, interrupted,
                       quiet>>

\* keyword_search
KeywordSearch(p, query, limit) ==
    LET f == Entered([op |-> "keyword_search", query |-> query, limit |-> limit])
    IN  /\ Begin(p)
        /\ Finish(p, f, manager[p],
                  KeywordResult(query, KeywordRows(memory, query, limit)))
        /\ UNCHANGED <<store_vars, vector_vars, env_vars, txn, last_write,
                       interrupted, quiet>>

\* a loop that takes every result with a key, seen or not
CombineSeen(combined, results, keyword_only) ==
    LET kept == SelectSeq(results, LAMBDA r : r.key # "")
    IN  combined \o
        [i \in DOMAIN kept |->
            [key |-> kept[i].key, content |-> kept[i].content,
             category |-> kept[i].category,
             score |-> IF keyword_only THEN FallbackScore ELSE kept[i].score,
             source |-> kept[i].source,
             hybrid_rank |-> Len(combined) + i]]

\* hybrid_search, lines 479-484 and 487-493: one loop over the results of a
\* leg; a result is taken when its key is not empty and not seen so far
RECURSIVE Combine(_, _, _)
Combine(combined, results, keyword_only) ==
    IF results = <<>> THEN combined
    ELSE LET r == Head(results)
             seen_keys == {combined[i].key : i \in DOMAIN combined}
             taken == [key |-> r.key, content |-> r.content,
                       category |-> r.category,
                       score |-> IF keyword_only THEN FallbackScore ELSE r.score,
                       source |-> r.source,
                       hybrid_rank |-> Len(combined) + 1]
         IN  IF r.key # "" /\ r.key \notin seen_keys
             THEN Combine(Append(combined, taken), Tail(results), keyword_only)
             ELSE Combine(combined, Tail(results), keyword_only)

\* hybrid_search, lines 475-493
Combined(semantic_results, keyword_results) ==
    Combine(Combine(<<>>, semantic_results.results, FALSE),
            keyword_results.results, TRUE)

\* a result whose count is taken before the list is cut at limit
HybridResultCountsAll(query, limit, semantic_results, keyword_results) ==
    LET combined == Combined(semantic_results, keyword_results)
        From(source) == {i \in DOMAIN combined : combined[i].source = source}
    IN  [op |-> "hybrid_search", raised |-> FALSE, query |-> query,
         results |-> Take(combined, limit),
         count |-> Len(combined),
         semantic_available |-> "error" \notin DOMAIN semantic_results,
         sources |-> [semantic |-> Cardinality(From("qdrant")),
                      keyword |-> Cardinality(From("sqlite"))]]

\* hybrid_search, lines 495-504
HybridResult(query, limit, semantic_results, keyword_results) ==
    LET combined == Combined(semantic_results, keyword_results)
        From(source) == {i \in DOMAIN combined : combined[i].source = source}
    IN  [op |-> "hybrid_search", raised |-> FALSE, query |-> query,
         results |-> Take(combined, limit),
         count |-> Min(Len(combined), limit),
         semantic_available |-> "error" \notin DOMAIN semantic_results,
         sources |-> [semantic |-> Cardinality(From("qdrant")),
                      keyword |-> Cardinality(From("sqlite"))]]

\* hybrid_search, line 469: semantic_search(query, limit=limit * 2)
HybridSemantic(p, query, limit) ==
    LET f == Entered([op |-> "hybrid_search", query |-> query, limit |-> limit])
    IN  /\ Begin(p)
        /\ \E o \in EnsureQdrant(p) : \E outcome \in SearchOutcomes(o) :
            \E hits \in IF outcome = "ok" THEN SearchHits(qdrant, query, limit * 2)
                         ELSE {<<>>} :
                /\ collection_exists' = o.collection
                /\ Continue(p, Logged([f EXCEPT
                                   !.pc = "hybrid_keyword",
                                   !.semantic_results =
                                       SemanticResult(query, outcome, hits)],
                                      "vec_" \o outcome),
                            o.manager)
        /\ UNCHANGED <<store_vars, qdrant, env_vars, txn, last_write, interrupted,
                       quiet>>

\* hybrid_search, lines 472-504: keyword_search(query, limit=limit * 2), the
\* merge and the return
HybridKeyword(p) ==
    /\ pc(p) = "hybrid_keyword"
    /\ Finish(p, frame[p], manager[p],
              HybridResult(call(p).query, call(p).limit, frame[p].semantic_results,
                           KeywordResult(call(p).query,
                                         KeywordRows(memory, call(p).query,
                                                     call(p).limit * 2))))
    /\ UNCHANGED <<store_vars, vector_vars, env_vars, txn, history_vars>>

\* ------------------------------------------------------------ context_for
\* context_for, lines 519-532, and context_inject, lines 268-278: the loop
\* over the results, from the entries and the token count it has reached
\* a loop that passes over a result that does not fit and goes on
RECURSIVE ContextLoopSkips(_, _, _, _, _)
ContextLoopSkips(entries, current_tokens, results, max_tokens, entry_tokens) ==
    IF results = <<>>
    THEN [entries |-> entries, current_tokens |-> current_tokens]
    ELSE LET r == Head(results)
             estimated_tokens == Len(r.content) \div CharsPerToken
         IN  IF current_tokens + estimated_tokens > max_tokens
             THEN ContextLoopSkips(entries, current_tokens, Tail(results),
                                   max_tokens, entry_tokens)
             ELSE ContextLoopSkips(Append(entries,
                                          [key |-> r.key, category |-> r.category,
                                           score |-> r.score, content |-> r.content]),
                                   current_tokens + estimated_tokens + entry_tokens,
                                   Tail(results), max_tokens, entry_tokens)

RECURSIVE ContextLoop(_, _, _, _, _)
ContextLoop(entries, current_tokens, results, max_tokens, entry_tokens) ==
    IF results = <<>>
    THEN [entries |-> entries, current_tokens |-> current_tokens]
    ELSE LET r == Head(results)
             estimated_tokens == Len(r.content) \div CharsPerToken
         IN  IF current_tokens + estimated_tokens > max_tokens
             THEN [entries |-> entries, current_tokens |-> current_tokens]
             ELSE ContextLoop(Append(entries, [key |-> r.key, category |-> r.category,
                                               score |-> r.score,
                                               content |-> r.content]),
                              current_tokens + estimated_tokens + entry_tokens,
                              Tail(results), max_tokens, entry_tokens)

\* What context_for and context_inject return: the empty string (no header,
\* no entry) without results, the header and the entries otherwise.
ContextResult(op, topic, results, max_tokens, entry_tokens) ==
    IF results = <<>>
    THEN [op |-> op, raised |-> FALSE, header |-> FALSE, entries |-> <<>>]
    ELSE [op |-> op, raised |-> FALSE, header |-> TRUE,
          entries |-> ContextLoop(<<>>, HeaderTokens, results, max_tokens,
                                  entry_tokens).entries]

\* context_for, line 511: hybrid_search(topic, limit=10), its semantic leg
ContextSemantic(p, topic, max_tokens) ==
    LET f == Entered([op |-> "context_for", query |-> topic, limit |-> ContextLimit,
                      max_tokens |-> max_tokens])
    IN  /\ Begin(p)
        /\ \E o \in EnsureQdrant(p) : \E outcome \in SearchOutcomes(o) :
            \E hits \in IF outcome = "ok"
                         THEN SearchHits(qdrant, topic, ContextLimit * 2)
                         ELSE {<<>>} :
                /\ collection_exists' = o.collection
                /\ Continue(p, Logged([f EXCEPT
                                   !.pc = "context_keyword",
                                   !.semantic_results =
                                       SemanticResult(topic, outcome, hits)],
                                      "vec_" \o outcome),
                            o.manager)
        /\ UNCHANGED <<store_vars, qdrant, env_vars, txn, last_write, interrupted,
                       quiet>>

\* context_for, lines 511-534: the keyword leg and the merge of hybrid_search,
\* the loop and the return
ContextKeyword(p) ==
    /\ pc(p) = "context_keyword"
    /\ Finish(p, frame[p], manager[p],
              ContextResult("context_for", call(p).query,
                  HybridResult(call(p).query, ContextLimit, frame[p].semantic_results,
                               KeywordResult(call(p).query,
                                             KeywordRows(memory, call(p).query,
                                                         ContextLimit * 2))).results,
                  call(p).max_tokens, EntryTokens))
    /\ UNCHANGED <<store_vars, vector_vars, env_vars, txn, history_vars>>

\* ------------------------------------------------------------ list
\* list, lines 358-382
ListResult(mem, category) ==
    LET rows == SelectSeq(mem, LAMBDA r : category = "" \/ r.category = category)
    IN  [op |-> "list", raised |-> FALSE,
         memories |-> [i \in DOMAIN rows |->
                         [key |-> rows[i].key, value |-> rows[i].value,
                          category |-> rows[i].category,
                          vector_synced |-> (rows[i].vector_synced # 0)]]]

List(p, category) ==
    /\ Begin(p)
    /\ Finish(p, Entered([op |-> "list", category |-> category]), manager[p],
              ListResult(memory, category))
    /\ UNCHANGED <<store_vars, vector_vars, env_vars, txn, last_write, interrupted,
                   quiet>>

\* ------------------------------------------------------------ learning_add
\* learning_add, lines 693-700: INSERT INTO learnings; conn.commit()
LearningAddRelational(p, learning_type, content) ==
    LET f == Entered([op |-> "learning_add", id |-> learning_seq + 1,
                      learning_type |-> learning_type, content |-> content])
    IN  /\ learning_seq < MaxLearnings
        /\ Begin(p)
        /\ IF CanWrite(p)
           THEN /\ learning_seq' = learning_seq + 1
                /\ learnings' = Append(learnings,
                                       [id |-> learning_seq + 1,
                                        learning_type |-> learning_type,
                                        content |-> content, vector_synced |-> 0])
                /\ quiet' = FALSE
                /\ Continue(p, Logged([f EXCEPT !.pc = "learning_vector"],
                                      "sql_commit"),
                            manager[p])
           ELSE /\ Finish(p, Logged(f, "sql_error"), manager[p],
                          Raised("learning_add"))
                /\ UNCHANGED <<learning_seq, learnings, quiet>>
        /\ UNCHANGED <<memory, write_lock, vector_vars, env_vars, txn, last_write,
                       interrupted>>

LearningResult(id) ==
    [op |-> "learning_add", raised |-> FALSE, status |-> "added", learning_id |-> id]

\* learning_add, lines 703-704, and the return of line 708 when the store failed
LearningAddVector(p) ==
    /\ pc(p) = "learning_vector"
    /\ \E o \in EnsureQdrant(p) : \E outcome \in StoreOutcomes(o) :
        LET f == Logged([frame[p] EXCEPT !.qdrant_synced = (outcome = "ok")],
                        "vec_" \o outcome)
        IN  /\ qdrant' = StoreInQdrant(LearningKey(call(p).id), call(p).content,
                                       LearningCategory(call(p).learning_type),
                                       outcome)
            /\ collection_exists' = o.collection
            /\ IF outcome = "ok"
               THEN Continue(p, [f EXCEPT !.pc = "learning_mark"], o.manager)
               ELSE Finish(p, f, o.manager, LearningResult(call(p).id))
    /\ UNCHANGED <<store_vars, env_vars, txn, history_vars>>

\* learning_add, lines 705-708
LearningAddMark(p) ==
    /\ pc(p) = "learning_mark"
    /\ IF CanWrite(p)
       THEN /\ learnings' = MarkLearningsSynced(learnings, {call(p).id})
            /\ Finish(p, Logged(frame[p], "sql_mark"), manager[p],
                      LearningResult(call(p).id))
       ELSE /\ learnings' = learnings
            /\ Finish(p, Logged(frame[p], "sql_error"), manager[p],
                      Raised("learning_add"))
    /\ UNCHANGED <<memory, learning_seq, write_lock, vector_vars, env_vars, txn,
                   history_vars>>

\* ------------------------------------------------------------ qdrant-memory.py
\* _ensure_initialized, lines 88-114: the ways one call can end, each with
\* the value returned (ok) and the manager it leaves.  The except branch sets
\* _initialized to False, so the next call connects again.
EnsureInitialized(p) ==
    LET m == qdrant_manager[p]
        Attempt(ok, client, model) ==
            [ok |-> ok,
             manager |-> [initialized |-> ok, client |-> client, model |-> model,
                          init_failed |-> m.init_failed \/ ~ok,
                          connects |-> m.connects + 1]]
    IN  IF m.initialized THEN {[ok |-> TRUE, manager |-> m]}
        ELSE IF ~QDRANT_AVAILABLE THEN {[ok |-> FALSE, manager |-> m]}
        ELSE {\* no exception
              Attempt(TRUE, TRUE, EMBEDDINGS_AVAILABLE),
              \* QdrantClient(...) raised
              Attempt(FALSE, m.client, m.model),
              \* get_collections() or SentenceTransformer(...) raised
              Attempt(FALSE, TRUE, m.model)}

\* store, lines 173-192: the point upserted
QdrantPoint(key, content, category) ==
    [id |-> QdrantGenerateId(key), key |-> key, content |-> content,
     category |-> category, content_hash |-> ContentHash(content)]

\* How one store or search can end, given how _ensure_initialized ended:
\* "unavailable" (the returns before the try), "error" (the except), "ok".
\* Neither creates the collection.
QdrantOutcomes(o) ==
    IF ~o.ok \/ ~EMBEDDINGS_AVAILABLE THEN {"unavailable"}
    ELSE IF collection_exists THEN {"ok", "error"}
    ELSE {"error"}

\* how one delete can end, lines 322-333
QdrantDeleteOutcomes(o) ==
    IF ~o.ok THEN {"unavailable"}
    ELSE IF collection_exists THEN {"ok", "error"}
    ELSE {"error"}

\* the call returns r from frame f, leaving the QdrantMemoryManager as m;
\* under main() the process ends
QdrantFinish(p, f, m, r) ==
    /\ frame' = [frame EXCEPT ![p] = IF one_shot THEN Idle
                                     ELSE [f EXCEPT !.pc = "done", !.result = r]]
    /\ qdrant_manager' = [qdrant_manager EXCEPT ![p] = IF one_shot THEN NewQdrantManager
                                                       ELSE m]
    /\ manager' = [manager EXCEPT ![p] = IF one_shot THEN NewManager ELSE @]

\* store, lines 158-202
QdrantStoreResult(key, category, outcome) ==
    IF outcome = "ok"
    THEN [op |-> "store", raised |-> FALSE, status |-> "stored", key |-> key,
          category |-> category, point_id |-> QdrantGenerateId(key)]
    ELSE [op |-> "store", raised |-> FALSE, error |-> outcome]

QdrantStore(p, key, content, category) ==
    LET f == Entered([op |-> "store", key |-> key, content |-> content,
                      category |-> category])
    IN  /\ Begin(p)
        /\ \E o \in EnsureInitialized(p) : \E outcome \in QdrantOutcomes(o) :
            /\ qdrant' = IF outcome = "ok"
                         THEN UpsertPoint(qdrant, QdrantPoint(key, content, category))
                         ELSE qdrant
            /\ QdrantFinish(p, Logged(f, "vec_" \o outcome), o.manager,
                            QdrantStoreResult(key, category, outcome))
        /\ UNCHANGED <<store_vars, collection_exists, env_vars, txn, last_write,
                       interrupted, quiet>>

\* search, lines 204-256
QdrantSearchResult(query, outcome, hits) ==
    IF outcome = "ok"
    THEN [op |-> "search", raised |-> FALSE, query |-> query,
          results |-> [i \in DOMAIN hits |->
                         [key |-> hits[i].key, content |-> hits[i].content,
                          category |-> hits[i].category,
                          score |-> similarity[query][hits[i].content]]],
          count |-> Len(hits)]
    ELSE [op |-> "search", raised |-> FALSE, error |-> outcome, results |-> <<>>]

QdrantSearch(p, query, limit) ==
    LET f == Entered([op |-> "search", query |-> query, limit |-> limit])
    IN  /\ Begin(p)
        /\ \E o \in EnsureInitialized(p) : \E outcome \in QdrantOutcomes(o) :
            \E hits \in IF outcome = "ok" THEN SearchHits(qdrant, query, limit)
                         ELSE {<<>>} :
                QdrantFinish(p, Logged(f, "vec_" \o outcome), o.manager,
                             QdrantSearchResult(query, outcome, hits))
        /\ UNCHANGED <<store_vars, vector_vars, env_vars, txn, last_write,
                       interrupted, quiet>>

\* delete, lines 320-333
QdrantDeleteResult(key, outcome) ==
    IF outcome = "ok"
    THEN [op |-> "vector_delete", raised |-> FALSE, status |-> "deleted", key |-> key]
    ELSE [op |-> "vector_delete", raised |-> FALSE, error |-> outcome]

QdrantDelete(p, key) ==
    LET f == Entered([op |-> "vector_delete", key |-> key])
    IN  /\ Begin(p)
        /\ \E o \in EnsureInitialized(p) : \E outcome \in QdrantDeleteOutcomes(o) :
            /\ qdrant' = IF outcome = "ok"
                         THEN DeletePoint(qdrant, QdrantGenerateId(key))
                         ELSE qdrant
            /\ QdrantFinish(p, Logged(f, "vec_" \o outcome), o.manager,
                            QdrantDeleteResult(key, outcome))
        /\ UNCHANGED <<store_vars, collection_exists, env_vars, txn, last_write,
                       interrupted, quiet>>

\* context_inject, lines 258-280
QdrantContextInject(p, query, max_tokens) ==
    LET f == Entered([op |-> "context_inject", query |-> query,
                      limit |-> ContextLimit, max_tokens |-> max_tokens])
    IN  /\ Begin(p)
        /\ \E o \in EnsureInitialized(p) : \E outcome \in QdrantOutcomes(o) :
            \E hits \in IF outcome = "ok" THEN SearchHits(qdrant, query, ContextLimit)
                         ELSE {<<>>} :
                QdrantFinish(p, Logged([f EXCEPT !.semantic_results =
                                            QdrantSearchResult(query, outcome, hits)],
                                       "vec_" \o outcome),
                             o.manager,
                             ContextResult("context_inject", query,
                                 QdrantSearchResult(query, outcome, hits).results,
                                 max_tokens, QdrantEntryTokens))
        /\ UNCHANGED <<store_vars, vector_vars, env_vars, txn, last_write,
                       interrupted, quiet>>

\* ------------------------------------------------------------ callers
\* the caller has the result and keeps the manager for its next call
Return(p) ==
    /\ pc(p) = "done"
    /\ frame' = [frame EXCEPT ![p] = Idle]
    /\ UNCHANGED <<store_vars, vector_vars, env_vars, manager, qdrant_manager, txn,
                   history_vars>>

\* The process ends, in the middle of a call or between two calls: SQLite
\* rolls its open transaction back, and what runs next in its place is a new
\* process with a new manager.
Terminate(p) ==
    /\ pc(p) # "idle" \/ manager[p] # NewManager \/ qdrant_manager[p] # NewQdrantManager
    /\ frame' = [frame EXCEPT ![p] = Idle]
    /\ manager' = [manager EXCEPT ![p] = NewManager]
    /\ qdrant_manager' = [qdrant_manager EXCEPT ![p] = NewQdrantManager]
    /\ txn' = [txn EXCEPT ![p] = NoTxn]
    /\ write_lock' = IF write_lock = p THEN None ELSE write_lock
    /\ interrupted' = IF pc(p) \in {"set_vector", "set_mark"}
                      THEN interrupted \cup {call(p).key}
                      ELSE interrupted
    /\ UNCHANGED <<memory, learnings, learning_seq, vector_vars, env_vars,
                   last_write, quiet, ops>>

\* ------------------------------------------------------------ specification
\* an empty database, no collection, no manager used yet
Start ==
    /\ memory = <<>>
    /\ learnings = <<>>
    /\ learning_seq = 0
    /\ write_lock = None
    /\ qdrant = {}
    /\ collection_exists = FALSE
    /\ QDRANT_AVAILABLE \in BOOLEAN
    /\ EMBEDDINGS_AVAILABLE \in BOOLEAN
    /\ manager = [p \in Procs |-> NewManager]
    /\ qdrant_manager = [p \in Procs |-> NewQdrantManager]
    /\ txn = [p \in Procs |-> NoTxn]
    /\ frame = [p \in Procs |-> Idle]
    /\ last_write = [k \in SearchKeys |-> NoWrite]
    /\ interrupted = {}
    /\ quiet = FALSE
    /\ ops = 0

\* a text scores high against itself and above the threshold against the
\* other texts
SelfSimilar == [q \in Queries |-> [t \in Texts |-> IF q = t THEN 8000 ELSE 4000]]

\* callers in parallel, each keeping its manager from call to call
Init == Start /\ similarity = SelfSimilar /\ one_shot = FALSE /\ serial = FALSE

\* one call at a time: a call runs to completion before the next starts
InitSeq == Start /\ similarity = SelfSimilar /\ one_shot = FALSE /\ serial = TRUE

\* command executions in parallel: one run of main() per call
InitCommands == Start /\ similarity = SelfSimilar /\ one_shot = TRUE /\ serial = FALSE

\* the steps of process p, by method
SetStep(p) ==
    \/ \E k \in Keys, vc \in Contents : SetRelational(p, k, vc[1], vc[2])
    \/ SetVector(p)
    \/ SetMark(p)

GetStep(p) == \E k \in Keys : Get(p, k)

DeleteStep(p) ==
    \/ \E k \in Keys : DeleteRelational(p, k)
    \/ DeleteVector(p)

SyncStep(p) ==
    \/ SyncStart(p)
    \/ SyncStoreMemory(p)
    \/ SyncMarkMemory(p)
    \/ SyncCommit(p)

SyncLearningStep(p) ==
    \/ SyncStoreLearning(p)
    \/ SyncMarkLearning(p)

LearningAddStep(p) ==
    \/ \E t \in LearningTypes, c \in LearningContents : LearningAddRelational(p, t, c)
    \/ LearningAddVector(p)
    \/ LearningAddMark(p)

Step(p) ==
    \/ SetStep(p)
    \/ GetStep(p)
    \/ DeleteStep(p)
    \/ SyncStep(p)
    \/ SyncLearningStep(p)
    \/ LearningAddStep(p)
    \/ Return(p)
    \/ Terminate(p)

Next == \E p \in Procs : Step(p)

Spec == Init /\ [][Next]_vars

SeqSpec == InitSeq /\ [][Next]_vars

\* parallel command executions of set, delete and sync-vectors
NextWrite ==
    \E p \in Procs :
        \/ SetStep(p)
        \/ DeleteStep(p)
        \/ SyncStep(p)
        \/ Terminate(p)

WriteSpec == InitCommands /\ [][NextWrite]_vars

\* ------------------------------------------------------------ sync_from_sqlite
\* the call goes on in frame f and leaves the QdrantMemoryManager as m
QdrantContinue(p, f, m) ==
    /\ frame' = [frame EXCEPT ![p] = f]
    /\ qdrant_manager' = [qdrant_manager EXCEPT ![p] = m]
    /\ UNCHANGED manager

\* SELECT key, value, category FROM memory
SelectAll(mem) ==
    [i \in DOMAIN mem |->
        [key |-> mem[i].key, value |-> mem[i].value, category |-> mem[i].category]]

\* SELECT id, learning_type, content FROM learnings
SelectAllLearnings(ls) ==
    [i \in DOMAIN ls |->
        [id |-> ls[i].id, learning_type |-> ls[i].learning_type,
         content |-> ls[i].content]]

\* a loop over the memories that stops at the first store that failed
QdrantSyncNextStops(f) ==
    IF f.errors # <<>> THEN [f EXCEPT !.pc = "qsync_return"]
    ELSE IF f.pc = "qsync_memory"
    THEN IF f.idx <= Len(f.memories) THEN f ELSE [f EXCEPT !.pc = "qsync_select"]
    ELSE IF f.idx <= Len(f.learnings) THEN [f EXCEPT !.pc = "qsync_learning"]
    ELSE [f EXCEPT !.pc = "qsync_return"]

\* sync_from_sqlite: frame f at the next entry of its loop, at the SELECT
\* of the learnings after the memories, or at the return
QdrantSyncNext(f) ==
    IF f.pc = "qsync_memory"
    THEN IF f.idx <= Len(f.memories) THEN f ELSE [f EXCEPT !.pc = "qsync_select"]
    ELSE IF f.idx <= Len(f.learnings) THEN [f EXCEPT !.pc = "qsync_learning"]
    ELSE [f EXCEPT !.pc = "qsync_return"]

\* sync_from_sqlite, lines 383-391 and 393-394
QdrantSyncStart(p) ==
    /\ Begin(p)
    /\ QdrantContinue(p, QdrantSyncNext([Entered([op |-> "sync_from_sqlite"]) EXCEPT
                                            !.pc = "qsync_memory",
                                            !.memories = SelectAll(memory)]),
                      qdrant_manager[p])
    /\ UNCHANGED <<store_vars, vector_vars, env_vars, txn, last_write, interrupted,
                   quiet>>

\* one manager.store(key, content, category) of a loop of sync_from_sqlite,
\* lines 396-401 and 407-413, and the count or the error it leaves
QdrantSyncStore(p, key, content, category) ==
    \E o \in EnsureInitialized(p) : \E outcome \in QdrantOutcomes(o) :
        LET f == Logged(frame[p], "vec_" \o outcome)
            stored == QdrantStoreResult(key, category, outcome)
        IN  /\ qdrant' = IF outcome = "ok"
                         THEN UpsertPoint(qdrant, QdrantPoint(key, content, category))
                         ELSE qdrant
            /\ QdrantContinue(p,
                   QdrantSyncNext(
                       IF "status" \in DOMAIN stored /\ stored.status = "stored"
                       THEN [f EXCEPT !.synced = @ + 1, !.idx = @ + 1]
                       ELSE [f EXCEPT !.errors = Append(@, [key |-> key,
                                                            error |-> stored.error]),
                                      !.idx = @ + 1]),
                   o.manager)

\* sync_from_sqlite, lines 396-401
QdrantSyncStoreMemory(p) ==
    /\ pc(p) = "qsync_memory"
    /\ LET m == frame[p].memories[frame[p].idx]
       IN  QdrantSyncStore(p, m.key, m.value, m.category)
    /\ UNCHANGED <<store_vars, collection_exists, env_vars, txn, history_vars>>

\* sync_from_sqlite, lines 404-405
QdrantSyncSelect(p) ==
    /\ pc(p) = "qsync_select"
    /\ QdrantContinue(p, QdrantSyncNext([frame[p] EXCEPT
                                            !.pc = "qsync_learning",
                                            !.learnings = SelectAllLearnings(learnings),
                                            !.idx = 1]),
                      qdrant_manager[p])
    /\ UNCHANGED <<store_vars, vector_vars, env_vars, txn, history_vars>>

\* sync_from_sqlite, lines 407-413
QdrantSyncStoreLearning(p) ==
    /\ pc(p) = "qsync_learning"
    /\ LET l == frame[p].learnings[frame[p].idx]
       IN  QdrantSyncStore(p, LearningKey(l.id), l.content,
                           LearningCategory(l.learning_type))
    /\ UNCHANGED <<store_vars, collection_exists, env_vars, txn, history_vars>>

\* sync_from_sqlite, lines 415-422: conn.close(); return
QdrantSyncReturn(p) ==
    /\ pc(p) = "qsync_return"
    /\ QdrantFinish(p, frame[p], qdrant_manager[p],
                    [op |-> "sync_from_sqlite", raised |-> FALSE,
                     status |-> "synced", memories_synced |-> frame[p].synced,
                     errors |-> IF frame[p].errors # <<>> THEN frame[p].errors
                                ELSE None])
    /\ UNCHANGED <<store_vars, vector_vars, env_vars, txn, history_vars>>

QdrantSyncStep(p) ==
    \/ QdrantSyncStart(p)
    \/ QdrantSyncStoreMemory(p)
    \/ QdrantSyncSelect(p)
    \/ QdrantSyncStoreLearning(p)
    \/ QdrantSyncReturn(p)

\* the steps of process p on its QdrantMemoryManager
QdrantStep(p) ==
    \/ \E k \in Keys, vc \in Contents : QdrantStore(p, k, vc[1], vc[2])
    \/ \E q \in Queries, n \in Limits : QdrantSearch(p, q, n)
    \/ \E k \in Keys : QdrantDelete(p, k)

\* calls on the vector backend through both managers, one at a time, each
\* process keeping its managers
NextVector ==
    \E p \in Procs :
        \/ SetStep(p)
        \/ DeleteStep(p)
        \/ SyncStep(p)
        \/ \E q \in Queries, n \in Limits : SemanticSearch(p, q, n)
        \/ QdrantStep(p)
        \/ Return(p)

VectorSpec == InitSeq /\ [][NextVector]_vars

\* sync_from_sqlite beside the writers of the database, in parallel
NextQdrantSync ==
    \E p \in Procs :
        \/ SetStep(p)
        \/ DeleteStep(p)
        \/ LearningAddStep(p)
        \/ QdrantSyncStep(p)
        \/ Return(p)

QdrantSyncSpec == Init /\ [][NextQdrantSync]_vars

StatusStep(p) ==
    \/ StatusCount(p)
    \/ StatusUnsynced(p)
    \/ StatusQdrant(p)

\* callers in parallel, keeping their managers: set, get, delete and
\* sync_vectors
NextShared ==
    \E p \in Procs :
        \/ SetStep(p)
        \/ GetStep(p)
        \/ DeleteStep(p)
        \/ SyncStep(p)
        \/ Return(p)

SharedSpec == Init /\ [][NextShared]_vars

\* set, get and delete with any key of the command line, one call at a time
NextInput ==
    \E p \in Procs :
        \/ \E k \in SearchKeys, vc \in Contents : SetRelational(p, k, vc[1], vc[2])
        \/ SetVector(p)
        \/ SetMark(p)
        \/ \E k \in SearchKeys : Get(p, k)
        \/ \E k \in SearchKeys : DeleteRelational(p, k)
        \/ DeleteVector(p)
        \/ Return(p)

InputSpec == InitSeq /\ [][NextInput]_vars

\* the read-only methods of the HybridMemoryManager
ReadStep(p) ==
    \/ GetStep(p)
    \/ \E c \in ListCategories : List(p, c)
    \/ StatusStep(p)
    \/ \E q \in Queries, n \in Limits : KeywordSearch(p, q, n)
    \/ \E q \in Queries, n \in Limits : SemanticSearch(p, q, n)
    \/ \E q \in Queries, n \in Limits : HybridSemantic(p, q, n)
    \/ HybridKeyword(p)
    \/ \E q \in Queries, n \in TokenBudgets : ContextSemantic(p, q, n)
    \/ ContextKeyword(p)

\* every method that reads or writes table memory, one call at a time
NextOps ==
    \E p \in Procs :
        \/ SetStep(p)
        \/ DeleteStep(p)
        \/ SyncStep(p)
        \/ ReadStep(p)
        \/ Return(p)

OpsSpec == InitSeq /\ [][NextOps]_vars

ParOpsSpec == Init /\ [][NextOps]_vars

\* context_for and context_inject on a store filled before
NextContext ==
    \E p \in Procs :
        \/ \E q \in Queries, n \in TokenBudgets : ContextSemantic(p, q, n)
        \/ ContextKeyword(p)
        \/ \E q \in Queries, n \in TokenBudgets : QdrantContextInject(p, q, n)
        \/ Return(p)

SearchStep(p) ==
    \/ \E q \in Queries, n \in Limits : SemanticSearch(p, q, n)
    \/ \E q \in Queries, n \in Limits : QdrantSearch(p, q, n)
    \/ \E q \in Queries, n \in Limits : KeywordSearch(p, q, n)
    \/ \E q \in Queries, n \in Limits : HybridSemantic(p, q, n)
    \/ HybridKeyword(p)

\* the seconds the records of the stores searched were written in
SearchTimes == {1, 2}

\* the stores searched: per key no record, or a record that is synced, with
\* its point in the collection, or unsynced, without a point
SearchStores ==
    LET rows == [k \in SearchKeys |->
                   {NoRow} \cup
                   [key : {k}, value : IF k = "" THEN {"v1"} ELSE Texts,
                    category : {"general"},
                    updated_at : IF k = "k2" THEN SearchTimes ELSE {1},
                    vector_synced : {0, 1}]]
        Present(r) == r # NoRow
    IN  {SelectSeq(<<a, b, c>>, Present) :
            a \in rows[""], b \in rows["k1"], c \in rows["k2"]}

\* a store filled by earlier operations, any scoring of its texts, new
\* managers, calls one at a time, one search left to make
InitSearch ==
    /\ memory \in SearchStores
    /\ qdrant = {Point(memory[i].key, memory[i].value, memory[i].category) :
                    i \in {j \in DOMAIN memory : memory[j].vector_synced = 1}}
    /\ collection_exists = TRUE
    /\ learnings = <<>>
    /\ learning_seq = 0
    /\ write_lock = None
    /\ QDRANT_AVAILABLE \in BOOLEAN
    /\ EMBEDDINGS_AVAILABLE \in BOOLEAN
    /\ similarity \in [Queries -> [Texts -> Scores]]
    /\ one_shot = FALSE
    /\ serial = TRUE
    /\ manager = [p \in Procs |-> NewManager]
    /\ qdrant_manager = [p \in Procs |-> NewQdrantManager]
    /\ txn = [p \in Procs |-> NoTxn]
    /\ frame = [p \in Procs |-> Idle]
    /\ last_write = [k \in SearchKeys |-> NoWrite]
    /\ interrupted = {}
    /\ quiet = FALSE
    /\ ops = MaxOps - 1

NextSearch ==
    \E p \in Procs :
        \/ SearchStep(p)
        \/ Return(p)

SearchSpec == InitSearch /\ [][NextSearch]_vars

\* the stores keyword_search runs on: up to two records, written in the same
\* second or in different ones
KeywordStores ==
    LET rows == [k \in Keys |->
                   {NoRow} \cup
                   [key : {k}, value : KeywordTexts, category : {"general", "geo"},
                    updated_at : SearchTimes, vector_synced : {0}]]
    IN  {SelectSeq(<<a, b>>, LAMBDA r : r # NoRow) : a \in rows["k1"], b \in rows["k2"]}

InitKeyword ==
    /\ memory \in KeywordStores
    /\ qdrant = {}
    /\ collection_exists = FALSE
    /\ learnings = <<>>
    /\ learning_seq = 0
    /\ write_lock = None
    /\ QDRANT_AVAILABLE = FALSE
    /\ EMBEDDINGS_AVAILABLE = FALSE
    /\ similarity = SelfSimilar
    /\ one_shot = FALSE
    /\ serial = TRUE
    /\ manager = [p \in Procs |-> NewManager]
    /\ qdrant_manager = [p \in Procs |-> NewQdrantManager]
    /\ txn = [p \in Procs |-> NoTxn]
    /\ frame = [p \in Procs |-> Idle]
    /\ last_write = [k \in SearchKeys |-> NoWrite]
    /\ interrupted = {}
    /\ quiet = FALSE
    /\ ops = MaxOps - 1

NextKeyword ==
    \E p \in Procs :
        \/ \E q \in KeywordQueries, n \in Limits : KeywordSearch(p, q, n)
        \/ Return(p)

KeywordSpec == InitKeyword /\ [][NextKeyword]_vars

ContextSpec == InitSearch /\ [][NextContext]_vars

\* the stores context_for packs: up to two records with a short or a long
\* value, synced with their point in the collection or unsynced without one
PackStores ==
    LET rows == [k \in Keys |->
                   {NoRow} \cup
                   [key : {k}, value : PackTexts, category : {"general"},
                    updated_at : SearchTimes, vector_synced : {0, 1}]]
    IN  {SelectSeq(<<a, b>>, LAMBDA r : r # NoRow) : a \in rows["k1"], b \in rows["k2"]}

InitPack ==
    /\ memory \in PackStores
    /\ qdrant = {Point(memory[i].key, memory[i].value, memory[i].category) :
                    i \in {j \in DOMAIN memory : memory[j].vector_synced = 1}}
    /\ collection_exists = TRUE
    /\ learnings = <<>>
    /\ learning_seq = 0
    /\ write_lock = None
    /\ QDRANT_AVAILABLE \in BOOLEAN
    /\ EMBEDDINGS_AVAILABLE = TRUE
    /\ similarity = [q \in Queries |-> [t \in PackTexts |->
                                          IF q = t THEN 8000 ELSE 4000]]
    /\ one_shot = FALSE
    /\ serial = TRUE
    /\ manager = [p \in Procs |-> NewManager]
    /\ qdrant_manager = [p \in Procs |-> NewQdrantManager]
    /\ txn = [p \in Procs |-> NoTxn]
    /\ frame = [p \in Procs |-> Idle]
    /\ last_write = [k \in SearchKeys |-> NoWrite]
    /\ interrupted = {}
    /\ quiet = FALSE
    /\ ops = MaxOps - 1

\* context_for on a store filled before
NextPack ==
    \E p \in Procs :
        \/ \E q \in Queries, n \in PackBudgets : ContextSemantic(p, q, n)
        \/ ContextKeyword(p)
        \/ Return(p)

PackSpec == InitPack /\ [][NextPack]_vars

\* callers in parallel, keeping their managers: set and sync_vectors
NextCallers ==
    \E p \in Procs :
        \/ SetStep(p)
        \/ SyncStep(p)
        \/ Return(p)

CallerSpec == Init /\ [][NextCallers]_vars

\* ------------------------------------------------------------ properties
VectorEvents == {"vec_ok", "vec_error", "vec_unavailable"}
VectorFailures == {"vec_error", "vec_unavailable"}

Returned(p, op) ==
    pc(p) = "done" /\ call(p).op = op /\ ~result(p).raised

\* record r has these columns
Holds(r, key, value, category, vector_synced) ==
    /\ r # NoRow
    /\ r.key = key
    /\ r.value = value
    /\ r.category = category
    /\ r.vector_synced = vector_synced

\* the vector calls frame f has made
VectorCalls(f) == {i \in DOMAIN f.log : f.log[i] \in VectorEvents}

\* the vector half of the step from frame f to frame g (one more log entry)
VectorStep(f, g) ==
    /\ Len(g.log) = Len(f.log) + 1
    /\ g.log[Len(g.log)] \in VectorEvents

\* C1: in every set the relational commit of the record completes before the
\* vector upsert is attempted: a set reaches _store_in_qdrant only with its own
\* commit behind it, its first step leaves the collection alone, and a set
\* whose relational write raised ends there, having made no vector call.
C1_CommitBeforeUpsert ==
    /\ [][\A p \in Procs :
            /\ (frame'[p].call.op = "set" /\ VectorStep(frame[p], frame'[p]))
                  => frame[p].log = <<"sql_commit">>
            /\ (pc(p) = "idle" /\ frame'[p].call.op = "set")
                  => qdrant' = qdrant
            /\ (pc(p) = "idle" /\ frame'[p].result = Raised("set"))
                  => /\ frame'[p].pc = "done"
                     /\ memory' = memory
                     /\ qdrant' = qdrant]_vars
    /\ [](\A p \in Procs :
            (pc(p) = "done" /\ result(p) = Raised("set") /\ log(p)[1] = "sql_error")
              => VectorCalls(frame[p]) = {})

\* a set has raised "database is locked" on its INSERT while the UPDATEs of a
\* running sync_vectors, which upserted a point, hold the write lock
C1_Witness ==
    \E p \in Procs, q \in Procs :
        /\ pc(p) = "done" /\ result(p) = Raised("set") /\ log(p) = <<"sql_error">>
        /\ write_lock = q /\ q # p
        /\ qdrant # {}

\* C2: when the vector leg of set fails (backend unavailable, no embedding
\* model, or an exception during the upsert) set does not raise: it returns
\* sqlite true and qdrant false, the record holds the new value and category,
\* and its vector_synced is 0.
C2_VectorLegFailure ==
    \A p \in Procs :
        (/\ pc(p) = "done" /\ call(p).op = "set"
         /\ \E i \in DOMAIN log(p) : log(p)[i] \in VectorFailures)
        => /\ result(p) = SetResult(call(p).key, call(p).category, FALSE)
           /\ Cardinality(KeyRows(memory, call(p).key)) = 1
           /\ Holds(RowOf(memory, call(p).key), call(p).key, call(p).value,
                    call(p).category, 0)

\* a set whose upsert raised has returned, over a record that was synced with
\* another value, whose point is still in the collection
C2_Witness ==
    \E p \in Procs :
        /\ pc(p) = "done" /\ call(p).op = "set"
        /\ log(p) = <<"sql_commit", "vec_error">>
        /\ frame[p].before # NoRow
        /\ frame[p].before.vector_synced = 1
        /\ frame[p].before.value # call(p).value
        /\ \E pt \in qdrant : pt.key = call(p).key /\ pt.content # call(p).value

\* the second of two sets of one key with one category
SecondSet(p) ==
    /\ call(p).op = "set"
    /\ frame[p].before # NoRow
    /\ frame[p].before.category = call(p).category

\* the one record of the key of p's set holds the value of that set, with
\* vector_synced as given
HoldsNewValue(p, vector_synced) ==
    /\ Cardinality(KeyRows(memory, call(p).key)) = 1
    /\ Holds(RowOf(memory, call(p).key), call(p).key, call(p).value,
             call(p).category, vector_synced)

\* C3 as stated: set(k, v1, c) followed by set(k, v2, c) leaves exactly one
\* record for k, with value v2 and vector_synced = 0.
C3_SecondSetLeavesUnsynced ==
    \A p \in Procs :
        (SecondSet(p) /\ Returned(p, "set")) => HoldsNewValue(p, 0)

\* C3 amended: set(k, v1, c) followed by set(k, v2, c) leaves exactly one
\* record for k, with value v2; the commit of the second set resets
\* vector_synced to 0 even if the record was synced, and when the second set
\* returns the record is synced exactly if its own vector upsert succeeded.
C3_SecondSetResetsThenSyncs ==
    \A p \in Procs :
        SecondSet(p) =>
            /\ pc(p) \in {"set_vector", "set_mark"} => HoldsNewValue(p, 0)
            /\ Returned(p, "set")
                 => HoldsNewValue(p, IF result(p).qdrant THEN 1 ELSE 0)

\* the second set has returned with its upsert refused, over a record the
\* first set had left synced with another value
C3_Witness ==
    \E p \in Procs :
        /\ SecondSet(p) /\ Returned(p, "set")
        /\ frame[p].before.vector_synced = 1
        /\ frame[p].before.value # call(p).value
        /\ ~result(p).qdrant

\* C4: after any interleaving of set, delete and sync_vectors the table holds
\* at most one record per key, and a record of key k holds the value and the
\* category of the most recently committed set(k, ...), which no committed
\* delete(k) has followed.
C4_OneRecordPerKey ==
    \A k \in Keys :
        /\ Cardinality(KeyRows(memory, k)) <= 1
        /\ HasKey(memory, k)
             => /\ last_write[k].op = "set"
                /\ RowOf(memory, k).value = last_write[k].value
                /\ RowOf(memory, k).category = last_write[k].category

\* two sets of one key with different values are in progress in two
\* processes, both past their commit, with a third call behind them
C4_Witness ==
    \E p \in Procs, q \in Procs :
        /\ pc(p) = "set_mark" /\ pc(q) = "set_vector"
        /\ call(p).key = call(q).key
        /\ call(p).value # call(q).value
        /\ RowOf(memory, call(q).key).value = call(q).value
        /\ ops = MaxOps

\* C5: delete(k) on an existing key makes a subsequent get(k) return the
\* not-found result, whatever the vector half of the delete did.
C5_GetAfterDelete ==
    \A p \in Procs :
        (Returned(p, "get") /\ last_write[call(p).key].op = "delete")
        => result(p) = [op |-> "get", raised |-> FALSE, key |-> call(p).key,
                        value |-> None]

\* get has returned for a key whose record a delete removed while the point
\* of the key stayed in the collection
C5_Witness ==
    \E p \in Procs :
        /\ Returned(p, "get") /\ last_write[call(p).key].op = "delete"
        /\ \E pt \in qdrant : pt.id = GenerateId(call(p).key)

\* C6: in delete the relational deletion is committed before the vector
\* deletion is attempted and is not rolled back; a vector deletion that fails
\* or cannot be tried does not raise; the result reports the two outcomes in
\* two fields, and its status depends on the relational outcome only.
C6_DeleteRelationalFirst ==
    /\ [][\A p \in Procs :
            (frame'[p].call.op = "delete" /\ VectorStep(frame[p], frame'[p]))
              => /\ frame[p].log = <<"sql_commit">>
                 /\ ~HasKey(memory, call(p).key)
                 /\ memory' = memory]_vars
    /\ [](\A p \in Procs :
            (pc(p) = "done" /\ call(p).op = "delete" /\ VectorCalls(frame[p]) # {})
              => /\ ~result(p).raised
                 /\ result(p).sqlite = frame[p].deleted_sqlite
                 /\ result(p).qdrant = (log(p)[2] = "vec_ok")
                 /\ result(p).status =
                        (IF frame[p].deleted_sqlite THEN "deleted" ELSE "not_found")
                 /\ ~HasKey(memory, call(p).key))

\* a delete of an existing key has returned after qdrant_client.delete
\* raised: the record is gone, the point is still there
C6_Witness ==
    \E p \in Procs :
        /\ Returned(p, "delete")
        /\ frame[p].deleted_sqlite
        /\ log(p) = <<"sql_commit", "vec_error">>
        /\ \E pt \in qdrant : pt.id = GenerateId(call(p).key)

\* a point of the deterministic id of record r with the hash of its value
MatchingPoint(r, points) ==
    \E pt \in points :
        pt.id = GenerateId(r.key) /\ pt.content_hash = ContentHash(r.value)

\* this step leaves the record of key k with vector_synced = 1, which it did
\* not have before
BecameSynced(k) ==
    /\ RowOf(memory', k) # NoRow
    /\ RowOf(memory', k).vector_synced = 1
    /\ RowOf(memory, k) = NoRow \/ RowOf(memory, k).vector_synced = 0

\* C7: whenever set or sync_vectors leaves a record synced, a point with the
\* deterministic id of its key exists whose content_hash is the hash of the
\* record's current value, also when two sets of one key interleave.
C7_SyncedHasMatchingPoint ==
    [][\A k \in Keys :
          BecameSynced(k) => MatchingPoint(RowOf(memory', k), qdrant')]_vars

\* C8: sync_vectors never marks as synced a record whose current value
\* differs from the value it upserted: a record that a set overwrote after the
\* run had read it stays unsynced.
C8_SyncMarksWhatItUpserted ==
    [][\A p \in Procs : \A k \in Keys :
          (pc(p) = "sync_commit" /\ k \in txn[p].memory /\ BecameSynced(k))
            => \E i \in DOMAIN frame[p].memories :
                  /\ frame[p].memories[i].key = k
                  /\ frame[p].memories[i].value = RowOf(memory', k).value]_vars

\* C9: sync_vectors run with a healthy backend: the first run after a write
\* returns synced_count = N and a pending count of 0 for the N records it
\* found unsynced, and a run that follows a healthy run with no write in
\* between returns synced_count = 0 and a pending count of 0.
C9_SyncTwice ==
    \A p \in Procs :
        (/\ Returned(p, "sync_vectors")
         /\ "status" \in DOMAIN result(p)
         /\ HealthyRun(frame[p]))
        => /\ result(p).synced_count =
                  (IF frame[p].started_quiet THEN 0
                   ELSE Len(frame[p].memories) + Len(frame[p].learnings))
           /\ result(p).pending_memories + result(p).pending_learnings = 0

\* C10: when the process ends after set has committed and before its upsert
\* or its mark, the record stays with the new value and vector_synced = 0;
\* a sync_vectors run that then returns, with a healthy backend and no write
\* beside it, has left that record synced, with its point in the collection.
C10_CrashedSetRepaired ==
    /\ [][\A p \in Procs :
            (pc(p) \in {"set_vector", "set_mark"} /\ frame'[p].pc = "idle")
              => /\ memory' = memory
                 /\ Holds(RowOf(memory', call(p).key), call(p).key,
                          call(p).value, call(p).category, 0)]_vars
    /\ [](\A p \in Procs :
            (/\ Returned(p, "sync_vectors")
             /\ "status" \in DOMAIN result(p)
             /\ HealthyRun(frame[p]))
            => \A k \in interrupted :
                  /\ RowOf(memory, k).value = last_write[k].value
                  /\ RowOf(memory, k).vector_synced = 1
                  /\ MatchingPoint(RowOf(memory, k), qdrant))

\* a healthy sync_vectors has returned after upserting the record of a set
\* whose process had ended before its mark
C10_Witness ==
    \E p \in Procs : \E k \in interrupted :
        /\ Returned(p, "sync_vectors")
        /\ "status" \in DOMAIN result(p)
        /\ HealthyRun(frame[p])
        /\ \E i \in DOMAIN frame[p].memories : frame[p].memories[i].key = k

\* the keys of a list of results, in order
KeysOf(results) == [i \in DOMAIN results |-> results[i].key]

\* the places of key k in a list of results
Places(results, k) == {i \in DOMAIN results : results[i].key = k}

\* what keyword_search(query, limit) returns on the store as it is
KeywordNow(query, limit) == KeywordResult(query, KeywordRows(memory, query, limit))

\* C11: with the vector backend unavailable semantic_search, and search of
\* qdrant-memory.py, return an empty list of results together with an error
\* flag, and do not raise.
C11_SemanticSearchUnavailable ==
    \A p \in Procs :
        (/\ pc(p) = "done" /\ call(p).op \in {"semantic_search", "search"}
         /\ \E i \in DOMAIN log(p) : log(p)[i] \in VectorFailures)
        => /\ ~result(p).raised
           /\ result(p).results = <<>>
           /\ "error" \in DOMAIN result(p)

\* semantic_search has returned without reaching the backend, whose
\* collection holds a point that scores above the threshold for the query
C11_Witness ==
    \E p \in Procs :
        /\ Returned(p, "semantic_search")
        /\ log(p) = <<"vec_unavailable">>
        /\ \E pt \in qdrant :
              similarity[call(p).query][pt.content] >= ScoreThreshold

\* C12: with the vector backend unavailable hybrid_search(q, n) returns
\* exactly the keys of keyword_search(q, n), in the same order.
C12_HybridEqualsKeyword ==
    \A p \in Procs :
        (/\ Returned(p, "hybrid_search")
         /\ \E i \in DOMAIN log(p) : log(p)[i] \in VectorFailures)
        => KeysOf(result(p).results)
             = KeysOf(KeywordNow(call(p).query, call(p).limit).results)

\* the raw results of the two legs of the hybrid_search that p has returned
\* from
RawSemantic(p) == frame[p].semantic_results.results
RawKeyword(p) == KeywordNow(call(p).query, call(p).limit * 2).results

\* C13 as stated: a key in both the raw semantic and the raw keyword results
\* is in the output exactly once, with its semantic score; no key is in the
\* output twice.
C13_SharedKeyOnce ==
    \A p \in Procs :
        Returned(p, "hybrid_search")
        => /\ \A i \in DOMAIN RawSemantic(p) :
                 Places(RawKeyword(p), RawSemantic(p)[i].key) # {}
                 => \E j \in DOMAIN result(p).results :
                       /\ Places(result(p).results, RawSemantic(p)[i].key) = {j}
                       /\ result(p).results[j].score = RawSemantic(p)[i].score
           /\ \A k \in SearchKeys : Cardinality(Places(result(p).results, k)) <= 1

\* the semantic hits with a key, in the order returned
KeyedSemantic(p) == SelectSeq(RawSemantic(p), LAMBDA r : r.key # "")

\* C13 amended: a non-empty key in both the raw semantic and the raw keyword
\* results is in the output at most once, and exactly once when it is among
\* the first limit semantic hits that have a key; where it is, it carries its
\* semantic score and source, not the fallback score.  No key is in the
\* output twice, and no result with an empty key is in it.
C13_SharedKeyAtMostOnce ==
    \A p \in Procs :
        Returned(p, "hybrid_search")
        => /\ \A i \in DOMAIN KeyedSemantic(p) :
                 Places(RawKeyword(p), KeyedSemantic(p)[i].key) # {}
                 => /\ Places(result(p).results, KeyedSemantic(p)[i].key)
                         = (IF i <= call(p).limit THEN {i} ELSE {})
                    /\ i <= call(p).limit
                         => /\ result(p).results[i].score = KeyedSemantic(p)[i].score
                            /\ result(p).results[i].source = "qdrant"
           /\ \A k \in SearchKeys : Cardinality(Places(result(p).results, k)) <= 1
           /\ Places(result(p).results, "") = {}

\* hybrid_search has returned a key that both legs found, with a score that
\* is not the fallback score, and has cut off another one
C13_Witness ==
    \E p \in Procs :
        /\ Returned(p, "hybrid_search")
        /\ \E i \in DOMAIN KeyedSemantic(p), j \in DOMAIN KeyedSemantic(p) :
              /\ i <= call(p).limit /\ j > call(p).limit
              /\ Places(RawKeyword(p), KeyedSemantic(p)[i].key) # {}
              /\ Places(RawKeyword(p), KeyedSemantic(p)[j].key) # {}
              /\ result(p).results[i].score # FallbackScore

\* C14: hybrid_search(query, limit) asks both legs for 2 * limit results and
\* returns the first limit elements of: all semantic hits in the order
\* returned, then the keyword hits whose key is not among the semantic hits,
\* in keyword order; it does not sort by score.
C14_SemanticFirstThenKeyword ==
    \A p \in Procs :
        Returned(p, "hybrid_search")
        => LET semantic_keys == {RawSemantic(p)[i].key : i \in DOMAIN RawSemantic(p)}
               keyword_only == SelectSeq(RawKeyword(p),
                                         LAMBDA r : r.key \notin semantic_keys)
           IN  /\ Len(RawSemantic(p)) <= 2 * call(p).limit
               /\ Len(RawKeyword(p)) <= 2 * call(p).limit
               /\ KeysOf(result(p).results)
                    = Take(KeysOf(RawSemantic(p)) \o KeysOf(keyword_only),
                           call(p).limit)

\* C15: in every output of hybrid_search the fallback score of a hit that
\* only the keyword leg found is strictly below the score of every hit of the
\* semantic leg.
C15_FallbackBelowSemantic ==
    \A p \in Procs :
        Returned(p, "hybrid_search")
        => \A i \in DOMAIN result(p).results, j \in DOMAIN result(p).results :
              (result(p).results[i].source = "sqlite"
               /\ result(p).results[j].source = "qdrant")
              => result(p).results[i].score < result(p).results[j].score

\* C18: once _ensure_qdrant has returned False from an initialisation (no
\* client library, connection refused, any exception, also one raised after
\* the client object was constructed), every later call in the process
\* reports the backend as unavailable and initialises nothing again.
C18_FailedInitStaysUnavailable ==
    \A p \in Procs :
        manager[p].init_failed
        => \A o \in EnsureQdrant(p) : ~o.ok /\ o.manager = manager[p]

\* the points that carry key k in their payload
PointsOf(k) == {pt \in qdrant : pt.key = k}

\* C16: at all times the collection holds at most one point per record key,
\* however often the key is upserted, through set, sync_vectors or store.
C16_OnePointPerKey ==
    \A a \in qdrant, b \in qdrant : a.key = b.key => a = b

\* set has upserted a new value for a key whose earlier value had a point
C16_Witness ==
    \E p \in Procs :
        /\ Returned(p, "set") /\ result(p).qdrant
        /\ frame[p].before # NoRow
        /\ frame[p].before.vector_synced = 1
        /\ frame[p].before.value # call(p).value
        /\ PointsOf(call(p).key)
             = {Point(call(p).key, call(p).value, call(p).category)}

\* p's delete has just had its vector call served
DeleteServed(p) ==
    /\ pc(p) # "done" /\ pc(p)' = "done"
    /\ call(p)'.op \in {"delete", "vector_delete"}
    /\ log(p)' = <<"vec_ok">>

\* C17: the id of a point is a function of its key alone, the same in both
\* managers and in every process: every point carries the id either manager
\* computes for its key, and a delete that the backend served leaves no point
\* of its key, whichever manager and process had stored it.
C17_IdFromKey ==
    /\ [](\A pt \in qdrant : /\ pt.id = GenerateId(pt.key)
                              /\ pt.id = QdrantGenerateId(pt.key))
    /\ [][\A p \in Procs : DeleteServed(p) => PointsOf(call(p).key)' = {}]_vars

\* store of qdrant-memory.py has replaced the point that set had stored for
\* the record of its key
C17_Witness ==
    \E p \in Procs :
        /\ Returned(p, "store") /\ "status" \in DOMAIN result(p)
        /\ HasKey(memory, call(p).key)
        /\ RowOf(memory, call(p).key).vector_synced = 1
        /\ RowOf(memory, call(p).key).value # call(p).content
        /\ PointsOf(call(p).key)
             = {QdrantPoint(call(p).key, call(p).content, call(p).category)}

\* C19: once _ensure_initialized of a QdrantMemoryManager has failed, no
\* later operation on that manager opens a connection again.
C19_FailedInitNotRetried ==
    [][\A p \in Procs :
          (qdrant_manager[p].init_failed /\ qdrant_manager[p]'.init_failed)
          => qdrant_manager[p]'.connects = qdrant_manager[p].connects]_vars

\* p's call has had a vector call fail on a manager whose initialisation
\* had succeeded
FailedAfterInit(p) ==
    /\ pc(p) = "done"
    /\ \E i \in DOMAIN log(p) : log(p)[i] = "vec_error"

\* C20: a vector call that fails after the initialisation succeeded leaves
\* the cached state ready: the next _ensure_qdrant (_ensure_initialized)
\* answers True from the cache, so the next vector call is made.
C20_CallFailureKeepsReady ==
    \A p \in Procs :
        /\ (/\ FailedAfterInit(p) /\ ~manager[p].init_failed
             /\ call(p).op \in {"set", "delete", "semantic_search", "sync_vectors"})
            => /\ manager[p].qdrant_initialized /\ manager[p].qdrant_client
               /\ \A o \in EnsureQdrant(p) : o.ok /\ o.manager = manager[p]
        /\ (/\ FailedAfterInit(p)
             /\ call(p).op \in {"store", "search", "vector_delete"})
            => /\ qdrant_manager[p].initialized /\ qdrant_manager[p].client
               /\ \A o \in EnsureInitialized(p) :
                     o.ok /\ o.manager = qdrant_manager[p]

\* sync_vectors had the upsert of one record fail and made the upsert of
\* the next, which the backend served
C20_Witness ==
    \E p \in Procs :
        /\ Returned(p, "sync_vectors")
        /\ ~manager[p].init_failed
        /\ \E i \in DOMAIN log(p) :
              /\ i + 1 \in DOMAIN log(p)
              /\ log(p)[i] = "vec_error" /\ log(p)[i + 1] = "vec_ok"

\* the outcomes of the vector calls of frame f, in the order made
VectorLog(f) == SelectSeq(f.log, LAMBDA e : e \in VectorEvents)

\* the keys of the records a sync_vectors run has read, in the order of its
\* loops
PendingKeys(f) ==
    [i \in DOMAIN f.memories |-> f.memories[i].key]
    \o [i \in DOMAIN f.learnings |-> LearningKey(f.learnings[i].id)]

\* C21: a sync_vectors run that returns has made one upsert per record it
\* read as unsynced, whatever failed on the way; every record whose upsert
\* was served is marked and the mark is committed; every record whose upsert
\* failed is in the error list with its key; synced_count plus the number of
\* errors is the number of records read.
C21_SyncAttemptsEveryRecord ==
    \A p \in Procs :
        (Returned(p, "sync_vectors") /\ "status" \in DOMAIN result(p))
        => LET f == frame[p]
               v == VectorLog(f)
               keys == PendingKeys(f)
               served == {i \in DOMAIN v : v[i] = "vec_ok"}
               failed == {i \in DOMAIN v : v[i] \in VectorFailures}
           IN  /\ Len(v) = Len(keys)
               /\ result(p).synced_count = Cardinality(served)
               /\ Len(f.errors) = Cardinality(failed)
               /\ {f.errors[j].key : j \in DOMAIN f.errors} = {keys[i] : i \in failed}
               /\ result(p).synced_count + Len(f.errors)
                    = result(p).pending_memories + result(p).pending_learnings
               /\ ~txn[p].open
               /\ \A i \in served :
                     IF i <= Len(f.memories)
                     THEN /\ HasKey(memory, keys[i])
                          /\ RowOf(memory, keys[i]).vector_synced = 1
                     ELSE \E j \in DOMAIN learnings :
                             /\ learnings[j].id = f.learnings[i - Len(f.memories)].id
                             /\ learnings[j].vector_synced = 1

\* a sync_vectors run has returned after the upsert of one record was served
\* and the upsert of a later record failed
C21_Witness ==
    \E p \in Procs :
        /\ Returned(p, "sync_vectors") /\ "status" \in DOMAIN result(p)
        /\ \E i \in DOMAIN VectorLog(frame[p]), j \in DOMAIN VectorLog(frame[p]) :
              /\ i < j
              /\ VectorLog(frame[p])[i] = "vec_ok"
              /\ VectorLog(frame[p])[j] = "vec_error"
        /\ result(p).synced_count >= 1

\* p takes a step of a set or delete that was called with the empty key
EmptyKeyStep(p) ==
    /\ frame[p]' # frame[p]
    /\ call(p)'.op \in {"set", "delete"}
    /\ call(p)'.key = ""

\* C22: a set or delete called with the empty key changes neither table
\* memory nor the collection, and ends with an error.
C22_EmptyKeyRejected ==
    [][\A p \in Procs :
          EmptyKeyStep(p)
          => /\ memory' = memory
             /\ qdrant' = qdrant
             /\ pc(p)' = "done" => "error" \in DOMAIN result(p)']_vars

\* p enters get or delete with a key that table memory does not hold
AbsentKeyCall(p) ==
    /\ pc(p) = "idle" /\ pc(p)' # "idle"
    /\ call(p)'.op \in {"get", "delete"}
    /\ ~HasKey(memory, call(p)'.key)

\* C23: get and delete called with a key that table memory does not hold do
\* not raise, leave table memory as it is and answer not found: get with
\* value None, delete with status not_found.
C23_AbsentKey ==
    [][\A p \in Procs :
          /\ AbsentKeyCall(p)
              => /\ memory' = memory
                 /\ pc(p)' = "done"
                      => /\ ~result(p)'.raised
                         /\ result(p)'.value = None
          /\ (pc(p) = "delete_vector" /\ pc(p)' = "done" /\ ~frame[p].deleted_sqlite)
              => /\ memory' = memory
                 /\ ~result(p)'.raised
                 /\ result(p)'.status = "not_found"]_vars

\* the tokens that the header and these entries count for, each entry with
\* its estimate and the overhead per entry
RECURSIVE TokensOf(_, _)
TokensOf(entries, entry_tokens) ==
    IF entries = <<>> THEN HeaderTokens
    ELSE TokensOf(Tail(entries), entry_tokens)
         + (Len(Head(entries).content) \div CharsPerToken) + entry_tokens

\* the results that the search of a returned context_for or context_inject
\* had found
ContextFound(p) ==
    IF call(p).op = "context_for"
    THEN Combined(frame[p].semantic_results,
                  KeywordNow(call(p).query, ContextLimit * 2))
    ELSE frame[p].semantic_results.results

\* C25: for the entries context_for and context_inject include, the header
\* cost plus each entry's estimated tokens plus the overhead per entry does
\* not exceed max_tokens; without results they return the empty string.
C25_ContextWithinBudget ==
    \A p \in Procs :
        (pc(p) = "done" /\ call(p).op \in {"context_for", "context_inject"})
        => /\ result(p).entries # <<>>
                => TokensOf(result(p).entries,
                            IF call(p).op = "context_for" THEN EntryTokens
                            ELSE QdrantEntryTokens) <= call(p).max_tokens
           /\ ContextFound(p) = <<>>
                => (~result(p).header /\ result(p).entries = <<>>)

\* the rows of table memory with vector_synced = 0
UnsyncedRows == {i \in DOMAIN memory : memory[i].vector_synced = 0}

\* C24: no step of status changes a row of table memory or a point of the
\* collection, and the counts status returns are the number of rows and the
\* number of rows with vector_synced = 0.
C24_StatusReadsOnly ==
    /\ [][\A p \in Procs :
            (frame[p]' # frame[p] /\ call(p)'.op = "status")
            => (memory' = memory /\ qdrant' = qdrant)]_vars
    /\ [](\A p \in Procs :
            Returned(p, "status")
            => /\ result(p).sqlite.memories = Len(memory)
               /\ result(p).sqlite.unsynced_to_qdrant = Cardinality(UnsyncedRows))

\* status has returned on a store that holds a synced and an unsynced record
C24_Witness ==
    \E p \in Procs :
        /\ Returned(p, "status")
        /\ result(p).sqlite.memories = 2
        /\ result(p).sqlite.unsynced_to_qdrant = 1
        /\ qdrant # {}

\* the characters written in lower case
Lower(chars) == [i \in DOMAIN chars |-> Fold(chars[i])]

\* query is a substring of text, letters compared without regard to case
Contains(query, text) ==
    LET q == Lower(Spell(query))
        t == Lower(Spell(text))
    IN  \E at \in 0..(Len(t) - Len(q)) : SubSeq(t, at + 1, at + Len(q)) = q

\* the rows of table memory that have query in their key, value or category
Matching(query) ==
    {i \in DOMAIN memory :
        \/ Contains(query, memory[i].key)
        \/ Contains(query, memory[i].value)
        \/ Contains(query, memory[i].category)}

\* C26: keyword_search(query, limit) returns the records that have query as
\* a substring of their key, value or category, letters compared without
\* regard to case: the first limit of them in the order of updated_at
\* descending.
C26_KeywordSearchSubstring ==
    \A p \in Procs :
        Returned(p, "keyword_search")
        => LET res == result(p).results
               Row(i) == RowOf(memory, res[i].key)
               found == {res[i].key : i \in DOMAIN res}
           IN  /\ \A i \in DOMAIN res :
                     \E j \in Matching(call(p).query) : memory[j].key = res[i].key
               /\ \A i \in DOMAIN res, j \in DOMAIN res : i # j => res[i].key # res[j].key
               /\ Len(res) = Min(call(p).limit, Cardinality(Matching(call(p).query)))
               /\ \A i \in DOMAIN res, j \in DOMAIN res :
                     i < j => Row(i).updated_at >= Row(j).updated_at
               /\ \A j \in Matching(call(p).query) :
                     memory[j].key \notin found
                     => \A i \in DOMAIN res : Row(i).updated_at >= memory[j].updated_at

\* this step is the relational commit of a set of key k
SetCommits(k) ==
    \E p \in Procs :
        /\ pc(p) = "idle" /\ pc(p)' = "set_vector"
        /\ call(p)'.key = k

\* this step is the mark of a set, or the commit of a sync_vectors run, whose
\* upsert for key k was served before, in the same call
MarksAfterUpsert(k) ==
    \E p \in Procs :
        \/ /\ pc(p) = "set_mark" /\ pc(p)' = "done"
           /\ call(p).key = k
           /\ \E i \in DOMAIN log(p) : log(p)[i] = "vec_ok"
        \/ /\ pc(p) = "sync_commit" /\ pc(p)' = "done"
           /\ \E i \in DOMAIN frame[p].memories :
                 /\ frame[p].memories[i].key = k
                 /\ VectorLog(frame[p])[i] = "vec_ok"

\* C27: a record is created by the commit of a set, with vector_synced = 0;
\* the commit of every set leaves its record with vector_synced = 0; a
\* record gets vector_synced = 1 only in the mark of a set or the commit of a
\* sync_vectors run whose upsert for its key was served in the same call;
\* and vector_synced goes back to 0 only in the commit of a set.
C27_SyncStateMachine ==
    [][\A k \in Keys :
          /\ (~HasKey(memory, k) /\ HasKey(memory', k))
              => (SetCommits(k) /\ RowOf(memory', k).vector_synced = 0)
          /\ SetCommits(k) => RowOf(memory', k).vector_synced = 0
          /\ BecameSynced(k) => MarksAfterUpsert(k)
          /\ (/\ HasKey(memory, k) /\ HasKey(memory', k)
              /\ RowOf(memory, k).vector_synced = 1
              /\ RowOf(memory', k).vector_synced = 0)
              => SetCommits(k)]_vars

\* a set with the value and category its record already had has committed:
\* the record, which was synced, is unsynced
C27_Witness ==
    \E p \in Procs :
        /\ pc(p) = "set_vector"
        /\ frame[p].before # NoRow
        /\ frame[p].before.vector_synced = 1
        /\ frame[p].before.value = call(p).value
        /\ frame[p].before.category = call(p).category
        /\ RowOf(memory, call(p).key).vector_synced = 0

\* this step is a step of a sync_vectors call of process p
SyncRuns(p) ==
    /\ frame'[p] # frame[p]
    /\ \/ pc(p) = "idle" /\ call(p)'.op = "sync_vectors"
       \/ pc(p) \notin {"idle", "done"} /\ call(p).op = "sync_vectors"

\* the rows frame f read whose upsert was served
ServedKeys(f) ==
    {f.memories[i].key : i \in {j \in DOMAIN f.memories :
                                   /\ j \in DOMAIN VectorLog(f)
                                   /\ VectorLog(f)[j] = "vec_ok"}}

\* C28: no step of sync_vectors creates or deletes a record or changes a
\* record's key, value or category, and none takes a record from synced to
\* unsynced: the only change is vector_synced 0 -> 1, on records whose upsert
\* was served in this run.
C28_SyncOnlyMarks ==
    [][\A p \in Procs : SyncRuns(p) =>
          /\ Len(memory') = Len(memory)
          /\ \A i \in DOMAIN memory :
                /\ [memory'[i] EXCEPT !.vector_synced = memory[i].vector_synced]
                      = memory[i]
                /\ memory'[i].vector_synced # memory[i].vector_synced
                      => /\ memory[i].vector_synced = 0
                         /\ memory'[i].vector_synced = 1
                         /\ memory[i].key \in ServedKeys(frame[p])]_vars

\* a sync_vectors run has returned after one upsert was served and one was
\* not: the first record is synced, the second is still unsynced
C28_Witness ==
    \E p \in Procs :
        /\ Returned(p, "sync_vectors") /\ "status" \in DOMAIN result(p)
        /\ \E i \in DOMAIN frame[p].memories, j \in DOMAIN frame[p].memories :
              /\ frame[p].memories[i].key \in ServedKeys(frame[p])
              /\ frame[p].memories[j].key \notin ServedKeys(frame[p])
              /\ RowOf(memory, frame[p].memories[i].key) # NoRow
              /\ RowOf(memory, frame[p].memories[i].key).vector_synced = 1
              /\ RowOf(memory, frame[p].memories[j].key) # NoRow
              /\ RowOf(memory, frame[p].memories[j].key).vector_synced = 0

\* C29: no call to the vector backend is made by a process that holds the
\* write lock of the database or has an uncommitted write: in set, delete and
\* sync_vectors every relational write made so far is committed before the
\* next _store_in_qdrant or _delete_from_qdrant.
C29_NoVectorCallInTransaction ==
    [][\A p \in Procs :
          VectorStep(frame[p], frame'[p])
            => /\ ~txn[p].open
               /\ write_lock # p]_vars

\* p's manager reached the backend at its initialisation and has no
\* embedding model, sentence_transformers being absent
ReachedWithoutEmbeddings(p) ==
    /\ QDRANT_AVAILABLE /\ ~EMBEDDINGS_AVAILABLE
    /\ manager[p].qdrant_initialized
    /\ manager[p].qdrant_client
    /\ ~manager[p].init_failed
    /\ ~manager[p].embedding_model

\* C30: when the embedding model is missing and the backend is reachable the
\* manager behaves as unavailable: set returns qdrant False, semantic_search
\* returns no results with an error, sync_vectors returns the error
\* "Qdrant not available" and status reports qdrant as not connected.
C30_MissingEmbeddingsUnavailable ==
    \A p \in Procs :
        ReachedWithoutEmbeddings(p) =>
            /\ Returned(p, "set") => ~result(p).qdrant
            /\ Returned(p, "semantic_search")
                  => /\ result(p).results = <<>>
                     /\ "error" \in DOMAIN result(p)
            /\ Returned(p, "sync_vectors")
                  => /\ "error" \in DOMAIN result(p)
                     /\ "status" \notin DOMAIN result(p)
            /\ Returned(p, "status") => ~result(p).qdrant.connected

\* p's sync_vectors has returned without a vector call reaching the backend:
\* qdrant_client or sentence_transformers is absent, or the initialisation
\* failed
SyncWhileUnavailable(p) ==
    /\ pc(p) = "done" /\ call(p).op = "sync_vectors"
    /\ \A i \in DOMAIN log(p) : log(p)[i] \notin {"vec_ok", "vec_error"}
    /\ \/ ~QDRANT_AVAILABLE
       \/ manager[p].init_failed
       \/ ~manager[p].embedding_model

\* C31: sync_vectors with the backend unavailable does not raise, leaves
\* every vector_synced as it was, and returns synced_count = 0 with the
\* number of unsynced rows as its pending counts.
C31_SyncUnavailableResult ==
    /\ [][\A p \in Procs :
            (pc(p) # "done" /\ SyncWhileUnavailable(p)')
            => \A i \in DOMAIN memory :
                  /\ i \in DOMAIN memory'
                  /\ memory'[i].vector_synced = memory[i].vector_synced]_vars
    /\ [](\A p \in Procs :
            SyncWhileUnavailable(p)
            => /\ ~result(p).raised
               /\ "synced_count" \in DOMAIN result(p)
               /\ result(p).synced_count = 0
               /\ result(p).pending_memories = Cardinality(UnsyncedRows))

\* the results hybrid_search(topic, limit=10) gave to the context_for that p
\* has returned from
HybridFound(p) == Take(ContextFound(p), ContextLimit)

\* C32: the entries context_for includes are the first results of
\* hybrid_search(topic, limit=10), in its order, and the result after the
\* last entry included, if there is one, did not fit: no result after it is
\* included.
C32_ContextPacksPrefix ==
    \A p \in Procs :
        (pc(p) = "done" /\ call(p).op = "context_for")
        => LET entries == result(p).entries
               found == HybridFound(p)
               n == Len(entries)
           IN  /\ n <= Len(found)
               /\ \A i \in 1..n :
                     /\ entries[i].key = found[i].key
                     /\ entries[i].content = found[i].content
                     /\ entries[i].category = found[i].category
                     /\ entries[i].score = found[i].score
               /\ n < Len(found)
                     => TokensOf(entries, EntryTokens)
                          + (Len(found[n + 1].content) \div CharsPerToken)
                        > call(p).max_tokens

\* context_for has stopped at a result that did not fit, leaving out a later
\* result that would have fitted
C32_Witness ==
    \E p \in Procs :
        /\ pc(p) = "done" /\ call(p).op = "context_for"
        /\ \E j \in DOMAIN HybridFound(p) :
              /\ j > Len(result(p).entries) + 1
              /\ TokensOf(result(p).entries, EntryTokens)
                   + (Len(HybridFound(p)[j].content) \div CharsPerToken)
                 <= call(p).max_tokens

\* the _ensure_qdrant of this step of p returned True on a manager whose
\* initialisation succeeded
EnsuredReady(p) ==
    /\ manager[p]'.qdrant_initialized
    /\ manager[p]'.qdrant_client
    /\ ~manager[p]'.init_failed

\* C33: a delete whose relational DELETE has committed calls
\* qdrant_client.delete with the id of its key whenever the backend is ready,
\* whether a row was deleted or not; when the call is served the point of
\* that id is gone.
C33_DeleteAlwaysTriesVector ==
    [][\A p \in Procs :
          (/\ pc(p) = "delete_vector" /\ pc(p)' = "done"
           /\ EnsuredReady(p))
          => /\ log(p)' = Append(log(p), "vec_ok")
                \/ log(p)' = Append(log(p), "vec_error")
             /\ log(p)' = Append(log(p), "vec_ok")
                  => /\ qdrant' = DeletePoint(qdrant, GenerateId(call(p).key))
                     /\ result(p)'.qdrant]_vars

\* a delete of a key without a row has returned not_found after its
\* qdrant_client.delete was served
C33_Witness ==
    \E p \in Procs :
        /\ Returned(p, "delete")
        /\ ~frame[p].deleted_sqlite
        /\ result(p).status = "not_found"
        /\ result(p).qdrant
        /\ log(p) = <<"sql_commit", "vec_ok">>

\* C34: with calls made one at a time, every record with vector_synced = 1
\* has a point in the collection whose content and category are the record's
\* value and category, whatever vector calls failed before.
C34_SyncedRecordHasCurrentPoint ==
    \A i \in DOMAIN memory :
        memory[i].vector_synced = 1
        => \E pt \in qdrant :
              /\ pt.id = GenerateId(memory[i].key)
              /\ pt.key = memory[i].key
              /\ pt.content = memory[i].value
              /\ pt.category = memory[i].category

\* a sync_vectors run has returned after its upsert of a record of value v2
\* was served: the record is synced and the only point of its key holds v2
C34_Witness ==
    \E p \in Procs : \E k \in Keys :
        /\ Returned(p, "sync_vectors") /\ "status" \in DOMAIN result(p)
        /\ k \in ServedKeys(frame[p])
        /\ RowOf(memory, k) # NoRow
        /\ RowOf(memory, k).vector_synced = 1
        /\ RowOf(memory, k).value = "v2"
        /\ \E pt \in qdrant : pt.key = k /\ pt.content = "v2"
        /\ \A pt \in qdrant : pt.key = k => pt.content = "v2"

\* C35: when a set and a delete of one key, called by two processes on an
\* empty store with every vector call served, have both returned, the
\* collection holds a point of the key only if table memory holds its row.
C35_NoOrphanAfterSetAndDelete ==
    \A p \in Procs, q \in Procs : \A k \in Keys :
        (/\ ops = 2
         /\ Returned(p, "set") /\ call(p).key = k
         /\ Returned(q, "delete") /\ call(q).key = k
         /\ HealthyRun(frame[p]) /\ HealthyRun(frame[q]))
        => ((\E pt \in qdrant : pt.id = GenerateId(k)) => HasKey(memory, k))

\* C36: hybrid_search returns at most limit results, its count is their
\* number, and their hybrid_rank values are 1, 2, ... in the order returned.
C36_HybridCountAndRanks ==
    \A p \in Procs :
        Returned(p, "hybrid_search")
        => /\ Len(result(p).results) <= call(p).limit
           /\ result(p).count = Len(result(p).results)
           /\ \A i \in DOMAIN result(p).results :
                 result(p).results[i].hybrid_rank = i

\* hybrid_search has returned limit results, leaving out a result of the
\* keyword leg that the merge had taken after one of the semantic leg
C36_Witness ==
    \E p \in Procs :
        /\ Returned(p, "hybrid_search")
        /\ call(p).limit = 1
        /\ result(p).count = 1
        /\ result(p).results[1].source = "qdrant"
        /\ Len(Combined(frame[p].semantic_results,
                        KeywordNow(call(p).query, call(p).limit * 2))) = 2

\* the results of source among those hybrid_search returned to p
ReturnedFrom(p, source) ==
    {i \in DOMAIN result(p).results : result(p).results[i].source = source}

\* C37: in the result of hybrid_search sources.semantic and sources.keyword
\* are the numbers of returned results of source qdrant and of source sqlite,
\* and they add up to count.
C37_SourcesDescribeResults ==
    \A p \in Procs :
        Returned(p, "hybrid_search")
        => /\ result(p).sources.semantic + result(p).sources.keyword
                = result(p).count
           /\ result(p).sources.semantic = Cardinality(ReturnedFrom(p, "qdrant"))
           /\ result(p).sources.keyword = Cardinality(ReturnedFrom(p, "sqlite"))

\* this step is a step of a sync_from_sqlite call of process p
QdrantSyncRuns(p) ==
    /\ frame'[p] # frame[p]
    /\ \/ pc(p) = "idle" /\ call(p)'.op = "sync_from_sqlite"
       \/ pc(p) \notin {"idle", "done"} /\ call(p).op = "sync_from_sqlite"

\* C38: no step of sync_from_sqlite changes table memory or table learnings;
\* a run that has returned has called store once for every row of table
\* memory it read, synced or not, and then for every learning, and each call
\* either counted in memories_synced or left its key in errors.
C38_SyncFromSqliteReadsOnly ==
    /\ [][\A p \in Procs :
            QdrantSyncRuns(p) => (memory' = memory /\ learnings' = learnings)]_vars
    /\ [][\A p \in Procs :
            (pc(p) = "idle" /\ pc(p)' # "idle"
             /\ call(p)'.op = "sync_from_sqlite")
            => frame[p]'.memories = SelectAll(memory)]_vars
    /\ [](\A p \in Procs :
            Returned(p, "sync_from_sqlite")
            => LET f == frame[p]
                   keys == [i \in 1..(Len(f.memories) + Len(f.learnings)) |->
                              IF i <= Len(f.memories) THEN f.memories[i].key
                              ELSE LearningKey(f.learnings[i - Len(f.memories)].id)]
                   failed == {i \in DOMAIN keys : f.log[i] # "vec_ok"}
               IN  /\ Len(f.log) = Len(keys)
                   /\ result(p).memories_synced = Len(keys) - Cardinality(failed)
                   /\ Cardinality(failed) =
                        (IF result(p).errors = None THEN 0
                         ELSE Len(result(p).errors))
                   /\ \A i \in failed :
                         \E j \in DOMAIN f.errors : f.errors[j].key = keys[i])

\* a sync_from_sqlite has returned after a store that failed and a later
\* store, of a record that was already synced, that was served
C38_Witness ==
    \E p \in Procs :
        /\ Returned(p, "sync_from_sqlite")
        /\ Len(frame[p].memories) = 2
        /\ log(p)[1] = "vec_error"
        /\ log(p)[2] = "vec_ok"
        /\ result(p).memories_synced >= 1
        /\ result(p).errors # None
        /\ RowOf(memory, frame[p].memories[2].key) # NoRow
        /\ RowOf(memory, frame[p].memories[2].key).vector_synced = 1
====
